---- MODULE Spec2Model ----
(***************************************************************************)
(* assyst: argument resolution of assyst-core, the RateTracker of           *)
(* assyst-common, the entitlement refresh task and the reply handler.      *)
(*                                                                         *)
(* Argument resolution: the ParseArgument implementations                  *)
(* of command/arguments.rs (primitive types, Option<T>, the ImageUrl       *)
(* strategy chains over the text cursor and the option cursor) and the     *)
(* flag decoder of command/flags.rs.                                       *)
(*                                                                         *)
(* Text is modelled as a sequence of lexemes (short strings), so that      *)
(* prefix tests, pattern matches and tokenisation are computed.  An        *)
(* Option<X> or a Vec<X> of which only first() is read is a sequence of    *)
(* length 0 or 1: <<>> is None, <<x>> is Some(x).                          *)
(***************************************************************************)
EXTENDS Integers, Sequences, FiniteSets, TLC

VARIABLES
    kind,       \* cursor kind of the invocation: "raw" or "option"
    argType,    \* the declared argument type T
    wrapped,    \* TRUE when the declared type is Option<T>
    words,      \* RawMessageParseCtxt: whitespace-delimited words of the body
    options,    \* InteractionCommandParseCtxt: the typed options
    pos,        \* the cursor's read position (words / options consumed)
    message,    \* ctxt.cx.data.message: attachments, sticker_items, referenced_message
    pc,         \* position inside the parse
    chainRes,   \* value returned by combined_parsers
    inner,      \* value returned by T's own parser (before Option<T> maps it)
    result,     \* value returned by parse_raw_message / parse_command_option
    items,      \* the items vector of Vec<Word>::parse_raw_message
    trace,      \* log of the strategies invoked by combined_parsers
    fetched,    \* message list returned by http_client.channel_messages
    page,       \* text of the page fetched by the tenor normalisation
    rawDecode,  \* raw_decode of FlagDecode::from_str (result of flags_from_str)
    tracking_length, \* RateTracker.tracking_length
    samples,    \* RateTracker.samples: (value, instant) pairs in push order
    now,        \* the clock read by Instant::now()
    called,     \* the sample vector and the clock when remove_expired_samples was entered
    rate,       \* value returned by the last get_rate
    trackerPc,  \* "ok", or "panic" once Vec::remove has panicked
    entCache,   \* assyst.entitlements: the ids cached in memory
    entDb,      \* the ids stored in the database
    entSnapshot, \* `entitlements`: the clone of the cache taken at the start of a run
    entRest,    \* `additional`: the ids of the REST response, in order
    entDbSeen,  \* `db_entitlements`: the ids returned by get_all
    entRemoved, \* the ids removed from the cache by the run's removal loop
    entFailed,  \* TRUE once the REST fetch, a conversion or a database call has failed
    entPc,      \* position inside refresh_entitlements
    replies,    \* assyst.replies at ctxt.data.message_id: None or Some(reply)
    callPc,     \* position of each reply() call
    callSeen,   \* reply_in_use as each call read it
    created,    \* the ids of the messages created by create_message, in order
    edits,      \* the ids of the messages edited by edit, in order
    content,    \* the String handed to trim_content_fits, as runs of equal-width chars
    original,   \* the content before the first trim
    trims,      \* number of calls of trim_content_fits made
    trimPc      \* "ok", or "panic" once String::truncate has panicked

argVars == <<kind, argType, wrapped, words, options, pos, message, pc, chainRes,
             inner, result, items, trace, fetched, page, rawDecode>>

trackerVars == <<tracking_length, samples, now, called, rate, trackerPc>>

entVars == <<entCache, entDb, entSnapshot, entRest, entDbSeen, entRemoved, entFailed, entPc>>

replyVars == <<replies, callPc, callSeen, created, edits>>

trimVars == <<content, original, trims, trimPc>>

serviceVars == <<trackerVars, entVars, replyVars, trimVars>>

vars == <<argVars, serviceVars>>

---------------------------------------------------------------------------
(* Bounds *)

MaxWords == 3
MaxImageWords == 1
MaxOptions == 1
MaxHistory == 2
MaxSamples == 3
MaxTime == 4
MaxTrackingLength == 2
MaxCalls == 2

\* Discord's message limit, in characters
CharLimit == 2000

---------------------------------------------------------------------------
(* Results and options *)

None == <<>>
Some(x) == <<x>>

Ok(v) == [tag |-> "Ok", val |-> v, err |-> "none"]
Err(e) == [tag |-> "Err", val |-> <<>>, err |-> e]
Panic == [tag |-> "Panic", val |-> <<>>, err |-> "todo"]
Pending == [tag |-> "Pending", val |-> <<>>, err |-> "none"]

IsOk(r) == r.tag = "Ok"
IsErr(r) == r.tag = "Err"

IsPrefix(p, s) == Len(p) <= Len(s) /\ SubSeq(s, 1, Len(p)) = p

SeqsUpTo(S, n) == UNION {[1..k -> S] : k \in 0..n}

---------------------------------------------------------------------------
(* Severity classifier *)

LowErrors == {"ArgsExhausted", "ParseIntError", "ParseFloatError", "ParseToMillisError",
              "NoAttachment", "NoReply", "NoEmbed", "NoSticker", "NoEmoji", "NoUrl",
              "NoMention", "NoImageInHistory"}

HighErrors == {"TwilightHttp", "TwilightDeserialize", "Reqwest", "UnsupportedSticker",
               "NoImageFound", "MediaDownloadFail", "MismatchedCommandOptionType",
               "FlagParseError"}

get_severity(e) == IF e \in LowErrors THEN "Low" ELSE "High"

---------------------------------------------------------------------------
(* Lexical helpers *)

NumVal == [l \in {"0", "1", "5", "20", "30", "42", "480"} |->
             CASE l = "0" -> 0 [] l = "1" -> 1 [] l = "5" -> 5 [] l = "20" -> 20
               [] l = "30" -> 30 [] l = "42" -> 42 [] l = "480" -> 480]

IsNumLexeme(l) == l \in DOMAIN NumVal

\* <@id> : the id of a user mention, None when the word is not one
id_from_mention(word) ==
    IF Len(word) = 3 /\ word[1] = "<@" /\ IsNumLexeme(word[2]) /\ word[3] = ">"
    THEN Some(NumVal[word[2]])
    ELSE None

\* regex::URL.is_match : a scheme followed by something, anywhere in the text
URL_is_match(word) == \E i \in 1..(Len(word) - 1) : word[i] = "https://"

get_avatar_url(user_id) == <<"https://", "cdn.discordapp.com/avatars/", user_id>>

\* emoji::lookup_by_glyph::lookup
Glyphs == {"U+1F600"}
lookup(word) == IF Len(word) = 1 /\ word[1] \in Glyphs THEN Some(word[1]) ELSE None

TenorViewPrefix == <<"https://", "tenor.com/view">>
TenorViewSlashPrefix == <<"https://", "tenor.com/view", "/">>

\* regex::TENOR_GIF : a direct media link of the tenor CDN
IsTenorGif(w) == Len(w) = 4 /\ w[1] = "https://" /\ w[2] = "c.tenor.com/" /\ w[4] = ".gif"

RECURSIVE TENOR_GIF_find(_)
TENOR_GIF_find(p) ==
    IF p = <<>> THEN None
    ELSE IF IsTenorGif(Head(p)) THEN Some(Head(p))
    ELSE TENOR_GIF_find(Tail(p))

---------------------------------------------------------------------------
(* Cursors *)

\* RawMessageParseCtxt::next_word
next_word(ws, p) ==
    IF p < Len(ws) THEN [res |-> Ok(ws[p + 1]), pos |-> p + 1]
    ELSE [res |-> Err("ArgsExhausted"), pos |-> p]

\* InteractionCommandParseCtxt::next_option
next_option(os, p) ==
    IF p < Len(os) THEN [res |-> Ok(os[p + 1]), pos |-> p + 1]
    ELSE [res |-> Err("ArgsExhausted"), pos |-> p]

\* commit_if_ok!(ctxt, f): run f on a fork of the cursor, keep the fork only on Ok
commit_if_ok(p, out) ==
    IF IsOk(out.res) THEN out ELSE [res |-> out.res, pos |-> p]

---------------------------------------------------------------------------
(* ImageUrl strategies.  Each returns the Result and the position of the   *)
(* cursor it was given (the fork) when it returns.                         *)

UserResps == {"ok", "http_err", "deser_err"}
EmojiResps == {"ok", "send_err", "json_err"}

\* http_client.user(id).await?.model().await?
user_lookup(id_lexeme, resp) ==
    CASE resp = "http_err" -> Err("TwilightHttp")
      [] resp = "deser_err" -> Err("TwilightDeserialize")
      [] OTHER -> Ok(get_avatar_url(id_lexeme))

from_mention_raw_message(ws, p, resp) ==
    LET w == next_word(ws, p) IN
    IF ~IsOk(w.res) THEN w
    ELSE LET user_id == id_from_mention(w.res.val) IN
         IF user_id = None THEN [res |-> Err("NoMention"), pos |-> w.pos]
         ELSE IF user_id[1] = 0 THEN [res |-> Err("NoMention"), pos |-> w.pos]
         ELSE [res |-> user_lookup(w.res.val[2], resp), pos |-> w.pos]

from_url_argument_raw_message(ws, p) ==
    LET w == next_word(ws, p) IN
    IF ~IsOk(w.res) THEN w
    ELSE IF URL_is_match(w.res.val) THEN [res |-> Ok(w.res.val), pos |-> w.pos]
    ELSE [res |-> Err("NoUrl"), pos |-> w.pos]

attachment(att) ==
    IF att = None THEN Err("NoAttachment") ELSE Ok(att[1].url)

from_attachment_raw_message(msg, p) ==
    [res |-> attachment(msg.attachments), pos |-> p]

sticker(st) ==
    IF st = None THEN Err("NoSticker")
    ELSE IF st[1].format_type = "Png"
         THEN Ok(<<"https://", "cdn.discordapp.com/stickers/", st[1].id, ".png">>)
         ELSE Err("UnsupportedSticker")

embed(em) ==
    IF em = None THEN Err("NoEmbed")
    ELSE LET e == em[1] IN
         IF e.url # None /\ IsPrefix(TenorViewSlashPrefix, e.url[1]) THEN Ok(e.url[1])
         ELSE IF e.image # None THEN Ok(e.image[1])
         ELSE IF e.thumbnail # None THEN Ok(e.thumbnail[1])
         ELSE IF e.video # None /\ e.video[1] # None THEN Ok(e.video[1][1])
         ELSE Err("NoEmbed")

emoji(word, resp) ==
    LET e == lookup(word) IN
    IF e # None
    THEN CASE resp = "send_err" -> Err("Reqwest")
           [] resp = "json_err" -> Err("Reqwest")
           [] OTHER -> Ok(<<"https://", "vendor.twitter/", e[1]>>)
    ELSE Err("NoEmoji")

\* handle! without its High arm: a High error falls through like a Low one
handle_ignore_high(r) == IF r.tag = "Ok" THEN "return" ELSE "continue"

\* the handle! macro of from_reply and of both combined_parsers
handle(r) ==
    IF IsOk(r) THEN "return"
    ELSE IF get_severity(r.err) = "High" THEN "return"
    ELSE "continue"

\* the embed of the referenced message tried before its sticker
from_reply_body_embed_first(msg, resp) ==
    IF msg.referenced_message = None THEN Err("NoReply")
    ELSE LET reply == msg.referenced_message[1]
             s == sticker(reply.sticker_items)
             e == embed(reply.embeds)
             m == emoji(reply.content, resp)
         IN IF reply.attachments # None THEN Ok(reply.attachments[1].url)
            ELSE IF handle(e) = "return" THEN e
            ELSE IF handle(s) = "return" THEN s
            ELSE IF handle(m) = "return" THEN m
            ELSE Err("NoReply")

from_reply_body(msg, resp) ==
    IF msg.referenced_message = None THEN Err("NoReply")
    ELSE LET reply == msg.referenced_message[1]
             s == sticker(reply.sticker_items)
             e == embed(reply.embeds)
             m == emoji(reply.content, resp)
         IN IF reply.attachments # None THEN Ok(reply.attachments[1].url)
            ELSE IF handle(s) = "return" THEN s
            ELSE IF handle(e) = "return" THEN e
            ELSE IF handle(m) = "return" THEN m
            ELSE Err("NoReply")

from_reply(msg, p, resp) == [res |-> from_reply_body(msg, resp), pos |-> p]

from_emoji_raw_message(ws, p, resp) ==
    LET w == next_word(ws, p) IN
    IF ~IsOk(w.res) THEN w
    ELSE [res |-> emoji(w.res.val, resp), pos |-> w.pos]

from_sticker(msg, p) == [res |-> sticker(msg.sticker_items), pos |-> p]

\* the history handle! written like the chain's handle!: a High error returns
handle_history_high(r) ==
    IF r.tag = "Ok" THEN "return"
    ELSE IF get_severity(r.err) = "High" THEN "return"
    ELSE "continue"

\* the handle! macro of from_channel_history: every error is ignored
handle_history(r) == IF IsOk(r) THEN "return" ELSE "continue"

\* one iteration with the attachment tried before the embed and the sticker
scan_message_attachment_first(m) ==
    LET e == embed(m.embeds)
        s == sticker(m.sticker_items)
        a == attachment(m.attachments)
    IN IF handle_history(a) = "return" THEN Some(a)
       ELSE IF handle_history(e) = "return" THEN Some(e)
       ELSE IF handle_history(s) = "return" THEN Some(s)
       ELSE None

\* one iteration of the for loop: Some(r) when a handle! returns r, None otherwise
scan_message(m) ==
    LET e == embed(m.embeds)
        s == sticker(m.sticker_items)
        a == attachment(m.attachments)
    IN IF handle_history(e) = "return" THEN Some(e)
       ELSE IF handle_history(s) = "return" THEN Some(s)
       ELSE IF handle_history(s) = "return" THEN Some(s)
       ELSE IF handle_history(a) = "return" THEN Some(a)
       ELSE None

RECURSIVE scan_messages(_)
scan_messages(ms) ==
    IF ms = <<>> THEN Err("NoImageInHistory")
    ELSE LET r == scan_message(Head(ms)) IN
         IF r # None THEN r[1] ELSE scan_messages(Tail(ms))

\* resp: the outcome of http_client.channel_messages(channel_id).await?.models().await?
from_channel_history(resp) ==
    CASE resp.status = "http_err" -> Err("TwilightHttp")
      [] resp.status = "deser_err" -> Err("TwilightDeserialize")
      [] OTHER -> scan_messages(resp.messages)

---------------------------------------------------------------------------
(* Option-cursor strategies *)

from_attachment_interaction_command(os, p) ==
    LET w == next_option(os, p) IN
    IF ~IsOk(w.res) THEN w
    ELSE IF w.res.val.kind = "Attachment" THEN [res |-> Panic, pos |-> w.pos]
    ELSE [res |-> Err("MismatchedCommandOptionType"), pos |-> w.pos]

from_mention_command_option(os, p, resp) ==
    LET w == next_option(os, p) IN
    IF ~IsOk(w.res) THEN w
    ELSE IF w.res.val.kind = "String"
    THEN LET user_id == id_from_mention(w.res.val.s) IN
         IF user_id = None THEN [res |-> Err("NoMention"), pos |-> w.pos]
         ELSE IF user_id[1] = 0 THEN [res |-> Err("NoMention"), pos |-> w.pos]
         ELSE [res |-> user_lookup(w.res.val.s[2], resp), pos |-> w.pos]
    ELSE [res |-> Err("MismatchedCommandOptionType"), pos |-> w.pos]

from_url_argument_command_option(os, p) ==
    LET w == next_option(os, p) IN
    IF ~IsOk(w.res) THEN w
    ELSE IF w.res.val.kind = "String"
    THEN IF URL_is_match(w.res.val.s) THEN [res |-> Ok(w.res.val.s), pos |-> w.pos]
         ELSE [res |-> Err("NoUrl"), pos |-> w.pos]
    ELSE [res |-> Err("MismatchedCommandOptionType"), pos |-> w.pos]

from_emoji_command_option(os, p, resp) ==
    LET w == next_option(os, p) IN
    IF ~IsOk(w.res) THEN w
    ELSE IF w.res.val.kind = "String"
    THEN IF URL_is_match(w.res.val.s) THEN [res |-> emoji(w.res.val.s, resp), pos |-> w.pos]
         ELSE [res |-> Err("NoUrl"), pos |-> w.pos]
    ELSE [res |-> Err("MismatchedCommandOptionType"), pos |-> w.pos]

---------------------------------------------------------------------------
(* Option<T> *)

\* the match of Option<T> with the guard on the severity left out: every error
\* becomes absent
OptionMatch_swallow(r) == IF IsOk(r) THEN Ok(Some(r.val)) ELSE Ok(None)

\* impl ParseArgument for Option<T>: the match on T's result
OptionMatch(r) ==
    IF IsOk(r) THEN Ok(Some(r.val))
    ELSE IF IsErr(r) /\ get_severity(r.err) = "High" THEN r
    ELSE Ok(None)

\* the value the declared type returns for T's result r
Finish(w, r) == IF w THEN OptionMatch(r) ELSE r

---------------------------------------------------------------------------
(* The two strategy chains *)

\* the text chain with its first two statements exchanged
RawOrder_swapped == <<"from_url_argument_raw_message", "from_mention_raw_message",
                      "from_attachment_raw_message", "from_reply", "from_emoji_raw_message",
                      "from_sticker", "from_channel_history">>

RawOrder == <<"from_mention_raw_message", "from_url_argument_raw_message",
              "from_attachment_raw_message", "from_reply", "from_emoji_raw_message",
              "from_sticker", "from_channel_history">>

OptionOrder == <<"from_attachment_interaction_command", "from_mention_command_option",
                 "from_url_argument_command_option", "from_emoji_command_option",
                 "from_channel_history">>

IndexOf(order, name) == CHOOSE i \in 1..Len(order) : order[i] = name

\* the strategy called on the context itself instead of through commit_if_ok!
attempt_no_rewind(p, raw) == raw

\* handle!(commit_if_ok!(ctxt, strategy)): what the chain keeps of a strategy's outcome
attempt(p, raw) == commit_if_ok(p, raw)

\* the history strategy is called directly on the context, never on a fork
attempt_history(p, r) == [res |-> r, pos |-> p]

\* the last statement returning the history scan's own error
chain_exhausted_history == Err("NoImageInHistory")

\* the last statement of combined_parsers
chain_exhausted == Err("NoImageFound")

\* one statement of combined_parsers: log the strategy, apply handle!, fall through
\* to the next statement or to the final Err(NoImageFound)
ChainStep(order, name, raw, out) ==
    /\ pc = name
    /\ trace' = Append(trace, [name |-> name, start |-> pos, res |-> raw.res,
                               end |-> raw.pos, kept |-> out.pos])
    /\ pos' = out.pos
    /\ IF out.res.tag = "Panic"
       THEN /\ pc' = "panic"
            /\ chainRes' = Panic
            /\ inner' = Panic
            /\ result' = Panic
       ELSE IF handle(out.res) = "return"
       THEN /\ chainRes' = out.res
            /\ IF IsOk(out.res)
               THEN pc' = "normalize" /\ inner' = inner /\ result' = result
               ELSE pc' = "done" /\ inner' = out.res /\ result' = Finish(wrapped, out.res)
       ELSE IF IndexOf(order, name) = Len(order)
       THEN /\ chainRes' = chain_exhausted
            /\ pc' = "done"
            /\ inner' = chain_exhausted
            /\ result' = Finish(wrapped, chain_exhausted)
       ELSE /\ pc' = order[IndexOf(order, name) + 1]
            /\ UNCHANGED <<chainRes, inner, result>>
    /\ UNCHANGED <<serviceVars, kind, argType, wrapped, words, options, message, items, page, rawDecode>>

---------------------------------------------------------------------------
(* Inputs *)

Mention5 == <<"<@", "5", ">">>
Mention0 == <<"<@", "0", ">">>
UrlDirect == <<"https://", "cdn.example/a.png">>
UrlTenorView == <<"https://", "tenor.com/view", "/", "cat-1">>
UrlTenorViewer == <<"https://", "tenor.com/view", "er">>
UrlAtt == <<"https://", "cdn.discordapp.com/attachments/", "a.png">>
UrlReplyAtt == <<"https://", "cdn.discordapp.com/attachments/", "r.png">>
UrlImg == <<"https://", "img.example/i.png">>
UrlThumb == <<"https://", "img.example/t.png">>
UrlVid == <<"https://", "img.example/v.mp4">>
UrlPage == <<"https://", "site.example/page">>
Gif1 == <<"https://", "c.tenor.com/", "cat-1", ".gif">>
Gif2 == <<"https://", "c.tenor.com/", "cat-2", ".gif">>
EmojiWord == <<"U+1F600">>
Plain == <<"abc">>

ImageWords == {Mention5, Mention0, UrlDirect, UrlTenorView, UrlTenorViewer, EmojiWord, Plain}

Attachments == {None, Some([url |-> UrlAtt])}
Stickers == {None, Some([format_type |-> "Png", id |-> "77"]),
             Some([format_type |-> "Apng", id |-> "78"])}

EmTenor == [url |-> Some(UrlTenorView), image |-> None, thumbnail |-> Some(UrlThumb), video |-> None]
EmImage == [url |-> Some(UrlPage), image |-> Some(UrlImg), thumbnail |-> Some(UrlThumb), video |-> None]
EmVideo == [url |-> None, image |-> None, thumbnail |-> None, video |-> Some(Some(UrlVid))]
EmEmpty == [url |-> Some(UrlTenorViewer), image |-> None, thumbnail |-> None, video |-> Some(None)]

PngSticker == Some([format_type |-> "Png", id |-> "77"])
ApngSticker == Some([format_type |-> "Apng", id |-> "78"])
ReplyAtt == Some([url |-> UrlReplyAtt])
Att == Some([url |-> UrlAtt])

ReplyMsg(a, s, e, c) == [attachments |-> a, sticker_items |-> s, embeds |-> e, content |-> c]

ReplyMessages ==
    {ReplyMsg(ReplyAtt, ApngSticker, None, Plain),
     ReplyMsg(None, PngSticker, Some(EmTenor), Plain),
     ReplyMsg(None, ApngSticker, Some(EmTenor), Plain),
     ReplyMsg(None, None, Some(EmTenor), EmojiWord),
     ReplyMsg(None, None, Some(EmVideo), Plain),
     ReplyMsg(None, None, Some(EmEmpty), EmojiWord),
     ReplyMsg(None, None, None, EmojiWord),
     ReplyMsg(None, None, Some(EmEmpty), Plain),
     ReplyMsg(None, None, None, Plain)}

Messages == [attachments : Attachments, sticker_items : Stickers,
             referenced_message : {None} \cup {Some(r) : r \in ReplyMessages}]

NoMessage == [attachments |-> None, sticker_items |-> None, referenced_message |-> None]

HistoryMsg(e, s, a) == [embeds |-> e, sticker_items |-> s, attachments |-> a]

HistoryMessages ==
    {HistoryMsg(None, None, None),
     HistoryMsg(Some(EmEmpty), ApngSticker, None),
     HistoryMsg(None, ApngSticker, Att),
     HistoryMsg(Some(EmTenor), None, Att),
     HistoryMsg(Some(EmImage), PngSticker, None),
     HistoryMsg(Some(EmEmpty), PngSticker, Att),
     HistoryMsg(None, None, Att)}

HistoryResps == {[status |-> "http_err", messages |-> <<>>],
                 [status |-> "deser_err", messages |-> <<>>]}
                \cup {[status |-> "ok", messages |-> ms] : ms \in SeqsUpTo(HistoryMessages, MaxHistory)}

Pages == {<<>>, <<Plain>>, <<Plain, Gif1, Gif2>>, <<UrlTenorView, Gif2>>, <<UrlTenorView>>}

PageResps == {[status |-> "send_err", text |-> <<>>], [status |-> "text_err", text |-> <<>>]}
             \cup {[status |-> "ok", text |-> t] : t \in Pages}

\* CommandOptionValue payloads: s is the text of a String, n the number of an
\* Integer or a Number
String(w) == [kind |-> "String", s |-> w, n |-> 0]
Integer(v) == [kind |-> "Integer", s |-> <<>>, n |-> v]
Number(v) == [kind |-> "Number", s |-> <<>>, n |-> v]
Attachment == [kind |-> "Attachment", s |-> <<>>, n |-> 0]
ImageOptions == {String(Mention5), String(Mention0), String(UrlDirect), String(UrlTenorView),
                 String(EmojiWord), String(Plain), Attachment, Integer(0)}

Two24 == 16777216

PrimOptions == {String(<<"42">>), String(Plain), String(<<"1", "h", "20", "m", "30", "s">>),
                String(<<" ", "abc", " ", " ", "42">>), Integer(42), Integer(-1),
                Number(2), Number(Two24 + 1), Attachment}

PrimWords == {<<"42">>, Plain, <<"1", "h", "20", "m", "30", "s">>, <<"1", ".", "5">>}

FlagWordsOf(T) ==
    CASE T = "RustFlags" -> {<<"--", "miri">>, <<"--", "asm">>, <<"--", "clippy">>,
                             <<"--", "bogus">>, <<"--">>, <<"480">>}
      [] T = "LangFlags" -> {<<"--", "verbose">>, <<"--", "bogus">>, <<"--">>, <<"480">>}
      [] T = "DownloadFlags" -> {<<"--", "quality">>, <<"--", "audio">>, <<"--", "bogus">>,
                                 <<"--">>, <<"480">>, Plain}

FlagOptionsOf(T) ==
    CASE T = "RustFlags" -> {String(<<"--", "miri", " ", "--", "bogus">>),
                             String(<<"--", "asm", " ", "--", "clippy">>), Integer(42)}
      [] T = "LangFlags" -> {String(<<"--", "verbose">>), String(<<"abc", " ", "--">>),
                             Attachment}
      [] T = "DownloadFlags" -> {String(<<"--", "quality", " ", "480", " ", "--", "audio">>),
                                 String(<<"--", "quality", " ", "abc">>),
                                 String(<<"--", "audio", " ", "480">>), Number(2)}

---------------------------------------------------------------------------
(* Primitive argument types over the text cursor *)

\* str::parse::<u64>
parse_u64(word) ==
    IF Len(word) = 1 /\ IsNumLexeme(word[1]) THEN Ok(NumVal[word[1]])
    ELSE Err("ParseIntError")

\* str::parse::<f64>
parse_f64(word) ==
    IF Len(word) = 1 /\ IsNumLexeme(word[1])
    THEN Ok([whole |-> NumVal[word[1]], frac |-> 0])
    ELSE IF Len(word) = 3 /\ IsNumLexeme(word[1]) /\ word[2] = "." /\ IsNumLexeme(word[3])
    THEN Ok([whole |-> NumVal[word[1]], frac |-> NumVal[word[3]]])
    ELSE Err("ParseFloatError")

UnitMillis == [u \in {"h", "m", "s"} |->
                 CASE u = "h" -> 3600000 [] u = "m" -> 60000 [] u = "s" -> 1000]

\* parse_to_millis: a sequence of <integer><unit> pairs, summed
RECURSIVE millis_of(_)
millis_of(word) ==
    IF word = <<>> THEN Ok(0)
    ELSE IF Len(word) >= 2 /\ IsNumLexeme(word[1]) /\ word[2] \in DOMAIN UnitMillis
    THEN LET r == millis_of(SubSeq(word, 3, Len(word))) IN
         IF IsOk(r) THEN Ok(NumVal[word[1]] * UnitMillis[word[2]] + r.val) ELSE r
    ELSE Err("ParseToMillisError")

parse_to_millis(word) == IF word = <<>> THEN Err("ParseToMillisError") ELSE millis_of(word)

\* RawMessageParseCtxt::rest
rest(ws, p) ==
    IF p < Len(ws) THEN [res |-> Ok(SubSeq(ws, p + 1, Len(ws))), pos |-> Len(ws)]
    ELSE [res |-> Err("ArgsExhausted"), pos |-> p]

\* RawMessageParseCtxt::rest_all
rest_all(ws, p) == [res |-> Ok(SubSeq(ws, p + 1, Len(ws))), pos |-> Len(ws)]

u64_parse_raw_message(ws, p) ==
    LET w == next_word(ws, p) IN
    IF ~IsOk(w.res) THEN w ELSE [res |-> parse_u64(w.res.val), pos |-> w.pos]

f64_parse_raw_message(ws, p) ==
    LET w == next_word(ws, p) IN
    IF ~IsOk(w.res) THEN w ELSE [res |-> parse_f64(w.res.val), pos |-> w.pos]

Time_parse_raw_message(ws, p) ==
    LET w == next_word(ws, p) IN
    IF ~IsOk(w.res) THEN w
    ELSE LET millis == parse_to_millis(w.res.val) IN
         IF IsOk(millis) THEN [res |-> Ok([millis |-> millis.val]), pos |-> w.pos]
         ELSE [res |-> millis, pos |-> w.pos]

Word_parse_raw_message(ws, p) == next_word(ws, p)

Rest_parse_raw_message(ws, p) == rest(ws, p)

PrimTypes == {"u64", "f64", "f32", "Time", "Word", "Rest"}

\* T::parse_raw_message(ctxt) run directly on the context, as Option<T> and the
\* command dispatcher call it
PrimStep(T, out) ==
    /\ kind = "raw"
    /\ pc = "start"
    /\ argType = T
    /\ pos' = out.pos
    /\ inner' = out.res
    /\ result' = Finish(wrapped, out.res)
    /\ pc' = "done"
    /\ UNCHANGED <<serviceVars, kind, argType, wrapped, words, options, message, chainRes, items, trace,
                   fetched, page, rawDecode>>

Parse_u64_raw ==
    /\ argType = "u64"
    /\ PrimStep("u64", u64_parse_raw_message(words, pos))

Parse_f64_raw ==
    /\ argType = "f64"
    /\ PrimStep("f64", f64_parse_raw_message(words, pos))

Parse_Time_raw ==
    /\ argType = "Time"
    /\ PrimStep("Time", Time_parse_raw_message(words, pos))

Parse_Word_raw ==
    /\ argType = "Word"
    /\ PrimStep("Word", Word_parse_raw_message(words, pos))

Parse_Rest_raw ==
    /\ argType = "Rest"
    /\ PrimStep("Rest", Rest_parse_raw_message(words, pos))

\* str::parse::<f32>
parse_f32(word) ==
    IF Len(word) = 1 /\ IsNumLexeme(word[1])
    THEN Ok([whole |-> NumVal[word[1]], frac |-> 0])
    ELSE IF Len(word) = 3 /\ IsNumLexeme(word[1]) /\ word[2] = "." /\ IsNumLexeme(word[3])
    THEN Ok([whole |-> NumVal[word[1]], frac |-> NumVal[word[3]]])
    ELSE Err("ParseFloatError")

f32_parse_raw_message(ws, p) ==
    LET w == next_word(ws, p) IN
    IF ~IsOk(w.res) THEN w ELSE [res |-> parse_f32(w.res.val), pos |-> w.pos]

Parse_f32_raw ==
    /\ argType = "f32"
    /\ PrimStep("f32", f32_parse_raw_message(words, pos))

---------------------------------------------------------------------------
(* Primitive argument types over the option cursor *)

\* `option as u64` of an i64: the exact value two64 * 2^64 + plus
\* the magnitude instead of the two's complement reading
as_u64_abs(v) == [two64 |-> 0, plus |-> IF v < 0 THEN 0 - v ELSE v]

as_u64(v) == [two64 |-> IF v < 0 THEN 1 ELSE 0, plus |-> v]

\* `option as f32` of an integral f64 below 2^25: 24 bits of mantissa, round to
\* nearest, ties to even
as_f32(v) ==
    IF v <= Two24 \/ v % 2 = 0 THEN [whole |-> v, frac |-> 0]
    ELSE IF ((v - 1) \div 2) % 2 = 0 THEN [whole |-> v - 1, frac |-> 0]
    ELSE [whole |-> v + 1, frac |-> 0]

\* u64::parse_command_option with a mismatch that is reported as a missing option
u64_parse_command_option_low(os, p) ==
    LET next == next_option(os, p) IN
    IF ~IsOk(next.res) THEN next
    ELSE IF next.res.val.kind = "Integer"
    THEN [res |-> Ok(as_u64(next.res.val.n)), pos |-> next.pos]
    ELSE [res |-> Err("ArgsExhausted"), pos |-> next.pos]

u64_parse_command_option(os, p) ==
    LET next == next_option(os, p) IN
    IF ~IsOk(next.res) THEN next
    ELSE IF next.res.val.kind = "Integer"
    THEN [res |-> Ok(as_u64(next.res.val.n)), pos |-> next.pos]
    ELSE [res |-> Err("MismatchedCommandOptionType"), pos |-> next.pos]

f64_parse_command_option(os, p) ==
    LET next == next_option(os, p) IN
    IF ~IsOk(next.res) THEN next
    ELSE IF next.res.val.kind = "Number"
    THEN [res |-> Ok([whole |-> next.res.val.n, frac |-> 0]), pos |-> next.pos]
    ELSE [res |-> Err("MismatchedCommandOptionType"), pos |-> next.pos]

f32_parse_command_option(os, p) ==
    LET next == next_option(os, p) IN
    IF ~IsOk(next.res) THEN next
    ELSE IF next.res.val.kind = "Number"
    THEN [res |-> Ok(as_f32(next.res.val.n)), pos |-> next.pos]
    ELSE [res |-> Err("MismatchedCommandOptionType"), pos |-> next.pos]

Time_parse_command_option(os, p) ==
    LET word == next_option(os, p) IN
    IF ~IsOk(word.res) THEN word
    ELSE IF word.res.val.kind = "String"
    THEN LET millis == parse_to_millis(word.res.val.s) IN
         IF IsOk(millis) THEN [res |-> Ok([millis |-> millis.val]), pos |-> word.pos]
         ELSE [res |-> millis, pos |-> word.pos]
    ELSE [res |-> Err("MismatchedCommandOptionType"), pos |-> word.pos]

Word_parse_command_option(os, p) ==
    LET word == next_option(os, p) IN
    IF ~IsOk(word.res) THEN word
    ELSE IF word.res.val.kind = "String" THEN [res |-> Ok(word.res.val.s), pos |-> word.pos]
    ELSE [res |-> Err("MismatchedCommandOptionType"), pos |-> word.pos]

Rest_parse_command_option(os, p) ==
    LET word == next_option(os, p) IN
    IF ~IsOk(word.res) THEN word
    ELSE IF word.res.val.kind = "String" THEN [res |-> Ok(word.res.val.s), pos |-> word.pos]
    ELSE [res |-> Err("MismatchedCommandOptionType"), pos |-> word.pos]

\* T::parse_command_option(ctxt) run directly on the context
PrimOptStep(T, out) ==
    /\ kind = "option"
    /\ pc = "start"
    /\ argType = T
    /\ pos' = out.pos
    /\ inner' = out.res
    /\ result' = Finish(wrapped, out.res)
    /\ pc' = "done"
    /\ UNCHANGED <<serviceVars, kind, argType, wrapped, words, options, message, chainRes, items, trace,
                   fetched, page, rawDecode>>

Parse_u64_option ==
    /\ argType = "u64"
    /\ PrimOptStep("u64", u64_parse_command_option(options, pos))

Parse_f64_option ==
    /\ argType = "f64"
    /\ PrimOptStep("f64", f64_parse_command_option(options, pos))

Parse_f32_option ==
    /\ argType = "f32"
    /\ PrimOptStep("f32", f32_parse_command_option(options, pos))

Parse_Time_option ==
    /\ argType = "Time"
    /\ PrimOptStep("Time", Time_parse_command_option(options, pos))

Parse_Word_option ==
    /\ argType = "Word"
    /\ PrimOptStep("Word", Word_parse_command_option(options, pos))

Parse_Rest_option ==
    /\ argType = "Rest"
    /\ PrimOptStep("Rest", Rest_parse_command_option(options, pos))

---------------------------------------------------------------------------
(* Vec<Word> *)

\* str::split_ascii_whitespace over a text of lexemes, " " the whitespace lexeme
RECURSIVE split_from(_, _)
split_from(text, cur) ==
    IF text = <<>> THEN (IF cur = <<>> THEN <<>> ELSE <<cur>>)
    ELSE IF text[1] = " "
    THEN (IF cur = <<>> THEN <<>> ELSE <<cur>>) \o split_from(Tail(text), <<>>)
    ELSE split_from(Tail(text), Append(cur, text[1]))

split_ascii_whitespace(text) == split_from(text, <<>>)

\* one pass of the while-let that stops the loop without reading the cursor
VecWord_iteration_stop(ws, p) == [res |-> Ok(None), pos |-> p]

\* one pass of the while-let: <Option<Word>>::parse_raw_message(ctxt)
VecWord_iteration(ws, p) ==
    LET w == Word_parse_raw_message(ws, p) IN [res |-> OptionMatch(w.res), pos |-> w.pos]

\* Vec<Word>::parse_raw_message, one action per pass of the loop
Parse_VecWord_raw ==
    /\ kind = "raw"
    /\ pc = "start"
    /\ argType = "VecWord"
    /\ LET o == VecWord_iteration(words, pos)
           done == IF IsOk(o.res) THEN Ok(items) ELSE o.res
       IN /\ pos' = o.pos
          /\ trace' = Append(trace, [name |-> "Option<Word>", start |-> pos, res |-> o.res,
                                     end |-> o.pos, kept |-> o.pos])
          /\ IF IsOk(o.res) /\ o.res.val # None
             THEN /\ items' = Append(items, o.res.val[1])
                  /\ UNCHANGED <<pc, inner, result>>
             ELSE /\ inner' = done
                  /\ result' = Finish(wrapped, done)
                  /\ pc' = "done"
                  /\ UNCHANGED items
    /\ UNCHANGED <<serviceVars, kind, argType, wrapped, words, options, message, chainRes, fetched, page,
                   rawDecode>>

VecWord_parse_command_option(os, p) ==
    LET text == Word_parse_command_option(os, p) IN
    IF ~IsOk(text.res) THEN text
    ELSE [res |-> Ok(split_ascii_whitespace(text.res.val)), pos |-> text.pos]

Parse_VecWord_option ==
    /\ argType = "VecWord"
    /\ PrimOptStep("VecWord", VecWord_parse_command_option(options, pos))

\* as_command_option: the option kind a type declares and whether it is required
bare_command_option(T) ==
    CASE T = "u64" -> [kind |-> "Integer", required |-> TRUE]
      [] T \in {"f64", "f32"} -> [kind |-> "Number", required |-> TRUE]
      [] T \in {"Time", "Word", "Rest", "VecWord"} -> [kind |-> "String", required |-> TRUE]
      [] T = "ImageUrl" -> [kind |-> "Attachment", required |-> TRUE]
      [] OTHER -> [kind |-> "String", required |-> FALSE]

\* Option<T>::as_command_option that keeps T's required flag
as_command_option_keep(T, w) == bare_command_option(T)

as_command_option(T, w) ==
    IF w THEN [bare_command_option(T) EXCEPT !.required = FALSE] ELSE bare_command_option(T)


---------------------------------------------------------------------------
(* Flag decoder *)

EmptyMap == [x \in {} |-> None]
\* an insert that stores the key without its value
Insert_drop_value(m, k, v) == [x \in (DOMAIN m) \cup {k} |-> IF x = k THEN None ELSE m[x]]

Insert(m, k, v) == [x \in (DOMAIN m) \cup {k} |-> IF x = k THEN v ELSE m[x]]

\* a token that is exactly "--" or longer counts as a flag name
IsFlagToken_any_dashes(arg) == Len(arg) >= 1 /\ arg[1] = "--"

IsFlagToken(arg) == Len(arg) >= 1 /\ arg[1] = "--" /\ Len(arg) > 1

\* the loop state of flags_from_str; err is Some(message) once the function has bailed
FlagState(c, e) == [current_flag |-> c, entries |-> e, err |-> None]
FlagBail(st, msg) == [current_flag |-> st.current_flag, entries |-> st.entries, err |-> Some(msg)]

\* the flag-name branch of the loop body
flags_on_flag(st, arg, valid_flags) ==
    IF st.current_flag # None
    THEN LET c == st.current_flag[1] IN
         IF c \notin DOMAIN valid_flags THEN FlagBail(st, "Unrecognised flag")
         ELSE IF valid_flags[c] = "NoValue"
         THEN FlagState(None, Insert(st.entries, c, None))
         ELSE FlagBail(st, "expects a value")
    ELSE FlagState(Some(Tail(arg)), st.entries)

\* the value branch without the reset of current_flag
flags_on_value_keep_pending(st, arg, valid_flags) ==
    IF st.current_flag # None
    THEN LET c == st.current_flag[1] IN
         IF c \notin DOMAIN valid_flags THEN FlagBail(st, "Unrecognised flag")
         ELSE IF valid_flags[c] = "WithValue"
         THEN FlagState(st.current_flag, Insert(st.entries, c, Some(arg)))
         ELSE FlagBail(st, "does not expect a value")
    ELSE st

\* the value branch of the loop body
flags_on_value(st, arg, valid_flags) ==
    IF st.current_flag # None
    THEN LET c == st.current_flag[1] IN
         IF c \notin DOMAIN valid_flags THEN FlagBail(st, "Unrecognised flag")
         ELSE IF valid_flags[c] = "WithValue"
         THEN FlagState(None, Insert(st.entries, c, Some(arg)))
         ELSE FlagBail(st, "does not expect a value")
    ELSE st

\* an iteration that skips every token that is not a flag name
flags_step_skip_values(st, arg, valid_flags) ==
    IF IsFlagToken(arg) THEN flags_on_flag(st, arg, valid_flags) ELSE st

\* one iteration of the loop over args
flags_step(st, arg, valid_flags) ==
    IF IsFlagToken(arg) THEN flags_on_flag(st, arg, valid_flags)
    ELSE flags_on_value(st, arg, valid_flags)

\* the tail check committing whatever is pending
flags_end_commit_any(st, valid_flags) ==
    IF st.current_flag # None
    THEN LET c == st.current_flag[1] IN
         IF c \notin DOMAIN valid_flags THEN Err("Unrecognised flag")
         ELSE Ok(Insert(st.entries, c, None))
    ELSE Ok(st.entries)

\* the check after the loop: a flag assigned by the last arg
flags_end(st, valid_flags) ==
    IF st.current_flag # None
    THEN LET c == st.current_flag[1] IN
         IF c \notin DOMAIN valid_flags THEN Err("Unrecognised flag")
         ELSE IF valid_flags[c] = "WithValue" THEN Err("expects a value")
         ELSE Ok(Insert(st.entries, c, None))
    ELSE Ok(st.entries)

\* the loop state after the first n args (the bail is kept once it happened)
RECURSIVE flags_after(_, _, _)
flags_after(args, n, valid_flags) ==
    IF n = 0 THEN FlagState(None, EmptyMap)
    ELSE LET st == flags_after(args, n - 1, valid_flags) IN
         IF st.err # None THEN st ELSE flags_step(st, args[n], valid_flags)

\* the body of flags_from_str: the loop over args from index i, then the tail check
RECURSIVE flags_loop(_, _, _, _, _)
flags_loop(args, i, current_flag, entries, valid_flags) ==
    IF i > Len(args)
    THEN flags_end(FlagState(current_flag, entries), valid_flags)
    ELSE LET st == flags_step(FlagState(current_flag, entries), args[i], valid_flags) IN
         IF st.err # None THEN Err(st.err[1])
         ELSE flags_loop(args, i + 1, st.current_flag, st.entries, valid_flags)

flags_from_str(args, valid_flags) == flags_loop(args, 1, None, EmptyMap, valid_flags)

RustValidFlags == [n \in {<<"miri">>, <<"release">>, <<"asm">>, <<"clippy">>, <<"bench">>}
                     |-> "NoValue"]
LangValidFlags == [n \in {<<"verbose">>} |-> "NoValue"]
DownloadValidFlags == [n \in {<<"quality">>, <<"audio">>} |->
                         IF n = <<"quality">> THEN "WithValue" ELSE "NoValue"]

ValidFlagsOf(T) ==
    CASE T = "RustFlags" -> RustValidFlags
      [] T = "LangFlags" -> LangValidFlags
      [] T = "DownloadFlags" -> DownloadValidFlags

RustFlags_from_str(raw_decode) ==
    IF ~IsOk(raw_decode) THEN raw_decode
    ELSE Ok([miri |-> <<"miri">> \in DOMAIN raw_decode.val,
             asm |-> <<"asm">> \in DOMAIN raw_decode.val,
             release |-> <<"release">> \in DOMAIN raw_decode.val,
             clippy |-> <<"clippy">> \in DOMAIN raw_decode.val,
             bench |-> <<"bench">> \in DOMAIN raw_decode.val])

LangFlags_from_str(raw_decode) ==
    IF ~IsOk(raw_decode) THEN raw_decode
    ELSE Ok([verbose |-> <<"verbose">> \in DOMAIN raw_decode.val])

DownloadFlags_from_str(raw_decode) ==
    IF ~IsOk(raw_decode) THEN raw_decode
    ELSE LET q == IF <<"quality">> \in DOMAIN raw_decode.val
                  THEN raw_decode.val[<<"quality">>] ELSE None
             quality == IF q = None THEN Ok(720) ELSE parse_u64(q[1])
         IN IF IsOk(quality)
            THEN Ok([audio |-> <<"audio">> \in DOMAIN raw_decode.val, quality |-> quality.val])
            ELSE Err("Provided quality is invalid")

from_str(T, raw_decode) ==
    CASE T = "RustFlags" -> RustFlags_from_str(raw_decode)
      [] T = "LangFlags" -> LangFlags_from_str(raw_decode)
      [] T = "DownloadFlags" -> DownloadFlags_from_str(raw_decode)

FlagTypes == {"RustFlags", "LangFlags", "DownloadFlags"}

\* flag_parse_argument!: parse_raw_message
Parse_flags_raw ==
    /\ kind = "raw"
    /\ pc = "start"
    /\ argType \in FlagTypes
    /\ LET args == rest_all(words, pos)
           raw_decode == flags_from_str(args.res.val, ValidFlagsOf(argType))
           parsed == from_str(argType, raw_decode)
       IN /\ rawDecode' = raw_decode
          /\ pos' = args.pos
          /\ inner' = (IF IsOk(parsed) THEN parsed ELSE Err("FlagParseError"))
          /\ result' = Finish(wrapped, IF IsOk(parsed) THEN parsed ELSE Err("FlagParseError"))
    /\ pc' = "done"
    /\ UNCHANGED <<serviceVars, kind, argType, wrapped, words, options, message, chainRes, items, trace,
                   fetched, page>>

\* #[derive(Default)]
default(T) ==
    CASE T = "RustFlags" -> Ok([miri |-> FALSE, asm |-> FALSE, release |-> FALSE,
                                clippy |-> FALSE, bench |-> FALSE])
      [] T = "LangFlags" -> Ok([verbose |-> FALSE])
      [] T = "DownloadFlags" -> Ok([audio |-> FALSE, quality |-> 0])

\* flag_parse_argument!: parse_command_option
flags_parse_command_option(T, os, p) ==
    LET word == next_option(os, p) IN
    IF IsOk(word.res)
    THEN IF word.res.val.kind = "String"
         THEN LET raw_decode == flags_from_str(split_ascii_whitespace(word.res.val.s),
                                               ValidFlagsOf(T))
                  parsed == from_str(T, raw_decode)
              IN [res |-> IF IsOk(parsed) THEN parsed ELSE Err("FlagParseError"),
                  raw |-> raw_decode, pos |-> word.pos]
         ELSE [res |-> Err("MismatchedCommandOptionType"), raw |-> Pending, pos |-> word.pos]
    ELSE [res |-> default(T), raw |-> Pending, pos |-> word.pos]

Parse_flags_option ==
    /\ kind = "option"
    /\ pc = "start"
    /\ argType \in FlagTypes
    /\ LET out == flags_parse_command_option(argType, options, pos)
       IN /\ rawDecode' = out.raw
          /\ pos' = out.pos
          /\ inner' = out.res
          /\ result' = Finish(wrapped, out.res)
    /\ pc' = "done"
    /\ UNCHANGED <<serviceVars, kind, argType, wrapped, words, options, message, chainRes, items, trace,
                   fetched, page>>

---------------------------------------------------------------------------
(* ImageUrl::parse_raw_message: combined_parsers, one action per statement *)

Raw_from_mention ==
    /\ kind = "raw"
    /\ \E resp \in UserResps :
         LET raw == from_mention_raw_message(words, pos, resp) IN
         ChainStep(RawOrder, "from_mention_raw_message", raw, attempt(pos, raw))
    /\ UNCHANGED fetched

Raw_from_url_argument ==
    /\ kind = "raw"
    /\ LET raw == from_url_argument_raw_message(words, pos) IN
       ChainStep(RawOrder, "from_url_argument_raw_message", raw, attempt(pos, raw))
    /\ UNCHANGED fetched

Raw_from_attachment ==
    /\ kind = "raw"
    /\ LET raw == from_attachment_raw_message(message, pos) IN
       ChainStep(RawOrder, "from_attachment_raw_message", raw, attempt(pos, raw))
    /\ UNCHANGED fetched

Raw_from_reply ==
    /\ kind = "raw"
    /\ \E resp \in EmojiResps :
         LET raw == from_reply(message, pos, resp) IN
         ChainStep(RawOrder, "from_reply", raw, attempt(pos, raw))
    /\ UNCHANGED fetched

Raw_from_emoji ==
    /\ kind = "raw"
    /\ \E resp \in EmojiResps :
         LET raw == from_emoji_raw_message(words, pos, resp) IN
         ChainStep(RawOrder, "from_emoji_raw_message", raw, attempt(pos, raw))
    /\ UNCHANGED fetched

Raw_from_sticker ==
    /\ kind = "raw"
    /\ LET raw == from_sticker(message, pos) IN
       ChainStep(RawOrder, "from_sticker", raw, attempt(pos, raw))
    /\ UNCHANGED fetched

Raw_from_channel_history ==
    /\ kind = "raw"
    /\ \E resp \in HistoryResps :
         /\ fetched' = resp
         /\ LET out == attempt_history(pos, from_channel_history(resp)) IN
            ChainStep(RawOrder, "from_channel_history", out, out)

---------------------------------------------------------------------------
(* ImageUrl::parse_command_option: combined_parsers *)

Opt_from_attachment ==
    /\ kind = "option"
    /\ LET raw == from_attachment_interaction_command(options, pos) IN
       ChainStep(OptionOrder, "from_attachment_interaction_command", raw, attempt(pos, raw))
    /\ UNCHANGED fetched

Opt_from_mention ==
    /\ kind = "option"
    /\ \E resp \in UserResps :
         LET raw == from_mention_command_option(options, pos, resp) IN
         ChainStep(OptionOrder, "from_mention_command_option", raw, attempt(pos, raw))
    /\ UNCHANGED fetched

Opt_from_url_argument ==
    /\ kind = "option"
    /\ LET raw == from_url_argument_command_option(options, pos) IN
       ChainStep(OptionOrder, "from_url_argument_command_option", raw, attempt(pos, raw))
    /\ UNCHANGED fetched

Opt_from_emoji ==
    /\ kind = "option"
    /\ \E resp \in EmojiResps :
         LET raw == from_emoji_command_option(options, pos, resp) IN
         ChainStep(OptionOrder, "from_emoji_command_option", raw, attempt(pos, raw))
    /\ UNCHANGED fetched

Opt_from_channel_history ==
    /\ kind = "option"
    /\ \E resp \in HistoryResps :
         /\ fetched' = resp
         /\ LET out == attempt_history(pos, from_channel_history(resp)) IN
            ChainStep(OptionOrder, "from_channel_history", out, out)

---------------------------------------------------------------------------
(* The tenor normalisation that follows combined_parsers *)

\* reqwest_client.get(&url).send().await?.text().await?, then TENOR_GIF.find
tenor_extract(resp) ==
    IF resp.status # "ok" THEN Err("Reqwest")
    ELSE LET gif_url == TENOR_GIF_find(resp.text) IN
         IF gif_url = None THEN Err("MediaDownloadFail") ELSE Ok(gif_url[1])

\* the prefix test of ImageUrl::embed used for the normalisation
needs_normalise_slash(url) == IsPrefix(TenorViewSlashPrefix, url)

needs_normalise(url) == IsPrefix(TenorViewPrefix, url)

Normalise ==
    /\ pc = "normalize"
    /\ IF needs_normalise(chainRes.val)
       THEN \E resp \in PageResps :
              /\ page' = (IF resp.status = "ok" THEN Some(resp.text) ELSE None)
              /\ inner' = tenor_extract(resp)
              /\ result' = Finish(wrapped, tenor_extract(resp))
       ELSE /\ page' = page
            /\ inner' = Ok(chainRes.val)
            /\ result' = Finish(wrapped, Ok(chainRes.val))
    /\ pc' = "done"
    /\ UNCHANGED <<serviceVars, kind, argType, wrapped, words, options, pos, message, chainRes,
                   items, trace, fetched, rawDecode>>

NormaliseRaw ==
    /\ kind = "raw"
    /\ Normalise

NormaliseOption ==
    /\ kind = "option"
    /\ Normalise

---------------------------------------------------------------------------
(* RateTracker (assyst-common/src/util/rate_tracker.rs) *)

SampleValues == {3, 5}

Sample(v, t) == [value |-> v, at |-> t]

\* Instant::now().duration_since(entry.1) > self.tracking_length
is_expired(entry, t, length) == t - entry.at > length

\* the first loop: the positions (from 0) of the expired entries, ascending
to_remove_of(ss, t, length) ==
    LET expired == {i \in 1..Len(ss) : is_expired(ss[i], t, length)}
        pick[k \in 0..Len(ss)] ==
            IF k = 0 THEN <<>>
            ELSE IF k \in expired THEN Append(pick[k - 1], k - 1) ELSE pick[k - 1]
    IN pick[Len(ss)]

\* Vec::remove(i) for i < len
Vec_remove(ss, i) == SubSeq(ss, 1, i) \o SubSeq(ss, i + 2, Len(ss))

\* the second loop: self.samples.remove(i) for each i, in the order collected;
\* Vec::remove panics when i is not below the current length
RECURSIVE remove_each(_, _)
remove_each(ss, to_remove) ==
    IF to_remove = <<>> THEN [samples |-> ss, panicked |-> FALSE]
    ELSE LET i == Head(to_remove) IN
         IF i >= Len(ss) THEN [samples |-> ss, panicked |-> TRUE]
         ELSE remove_each(Vec_remove(ss, i), Tail(to_remove))

remove_expired_samples(ss, t, length) == remove_each(ss, to_remove_of(ss, t, length))

NoCall == [samples |-> <<>>, at |-> 0, op |-> "none"]

\* the clock advances between two calls
Tick ==
    /\ kind = "tracker"
    /\ trackerPc = "ok"
    /\ now < MaxTime
    /\ now' = now + 1
    /\ UNCHANGED <<argVars, entVars, replyVars, trimVars, tracking_length, samples, called, rate, trackerPc>>

Remove_expired_samples ==
    /\ kind = "tracker"
    /\ trackerPc = "ok"
    /\ LET out == remove_expired_samples(samples, now, tracking_length) IN
       /\ samples' = out.samples
       /\ trackerPc' = (IF out.panicked THEN "panic" ELSE "ok")
    /\ called' = [samples |-> samples, at |-> now, op |-> "remove_expired_samples"]
    /\ UNCHANGED <<argVars, entVars, replyVars, trimVars, tracking_length, now, rate>>

Add_sample ==
    /\ kind = "tracker"
    /\ trackerPc = "ok"
    /\ Len(samples) < MaxSamples
    /\ \E value \in SampleValues :
         LET pushed == Append(samples, Sample(value, now))
             out == remove_expired_samples(pushed, now, tracking_length)
         IN /\ samples' = out.samples
            /\ trackerPc' = (IF out.panicked THEN "panic" ELSE "ok")
            /\ called' = [samples |-> pushed, at |-> now, op |-> "add_sample"]
    /\ UNCHANGED <<argVars, entVars, replyVars, trimVars, tracking_length, now, rate>>

\* self.samples.last()?.0 - self.samples.first()?.0
rate_of(ss) == IF ss = <<>> THEN None ELSE Some(ss[Len(ss)].value - ss[1].value)

Get_rate ==
    /\ kind = "tracker"
    /\ trackerPc = "ok"
    /\ LET out == remove_expired_samples(samples, now, tracking_length) IN
       /\ samples' = out.samples
       /\ trackerPc' = (IF out.panicked THEN "panic" ELSE "ok")
       /\ rate' = (IF out.panicked THEN rate ELSE Ok(rate_of(out.samples)))
    /\ called' = [samples |-> samples, at |-> now, op |-> "get_rate"]
    /\ UNCHANGED <<argVars, entVars, replyVars, trimVars, tracking_length, now>>

---------------------------------------------------------------------------
(* refresh_entitlements (assyst-core/src/task/tasks/refresh_entitlements.rs) *)

EntitlementIds == {11, 12}

\* the REST responses: the ids of `additional`, without repetition
RestResponses == {<<>>, <<11>>, <<12>>, <<11, 12>>, <<12, 11>>}

Range(q) == {q[i] : i \in 1..Len(q)}

\* the snapshot of line 11 and the REST fetch of lines 13-25: a failed fetch or a
\* failed model() gives an empty vec
Refresh_fetch ==
    /\ kind = "entitlements"
    /\ entPc = "start"
    /\ entSnapshot' = entCache
    /\ \/ \E r \in RestResponses : entRest' = r /\ entFailed' = entFailed
       \/ entRest' = <<>> /\ entFailed' = TRUE
    /\ entPc' = "add"
    /\ UNCHANGED <<argVars, trackerVars, replyVars, trimVars, entCache, entDb, entDbSeen, entRemoved>>

\* the add loop of lines 29-50; bad are the ids whose try_from fails, unset the
\* ids whose active.set fails
add_loop(cache, db, additional, bad, unset) ==
    LET new == {a \in Range(additional) : a \notin cache /\ a \notin bad} IN
    [cache |-> cache \cup new, db |-> db \cup (new \ unset)]

Refresh_add ==
    /\ kind = "entitlements"
    /\ entPc = "add"
    /\ \E bad \in SUBSET Range(entRest), unset \in SUBSET Range(entRest) :
         LET out == add_loop(entCache, entDb, entRest, bad, unset) IN
         /\ entCache' = out.cache
         /\ entDb' = out.db
         /\ entFailed' = (entFailed \/ bad # {} \/ unset # {})
    /\ entPc' = "remove"
    /\ UNCHANGED <<argVars, trackerVars, replyVars, trimVars, entSnapshot, entRest, entDbSeen, entRemoved>>

\* the removal loop of lines 58-74 over db_entitlements; entitlements is the
\* snapshot of line 11, undeleted the ids whose delete fails
removal_loop(cache, db, seen, entitlements, additional, undeleted) ==
    LET gone == {e \in seen : e \notin entitlements} IN
    [cache |-> cache \ gone, db |-> db \ (gone \ undeleted), removed |-> gone]

\* get_all of lines 52-55 (an error gives an empty map) and the removal loop
Refresh_remove ==
    /\ kind = "entitlements"
    /\ entPc = "remove"
    /\ \E got \in BOOLEAN, undeleted \in SUBSET entDb :
         LET seen == IF got THEN entDb ELSE {}
             out == removal_loop(entCache, entDb, seen, entSnapshot, entRest, undeleted)
         IN /\ entDbSeen' = seen
            /\ entCache' = out.cache
            /\ entDb' = out.db
            /\ entRemoved' = out.removed
            /\ entFailed' = (entFailed \/ ~got \/ (out.removed \cap undeleted) # {})
    /\ entPc' = "done"
    /\ UNCHANGED <<argVars, trackerVars, replyVars, trimVars, entSnapshot, entRest>>

IdleEntitlements ==
    /\ entCache = {}
    /\ entDb = {}
    /\ entSnapshot = {}
    /\ entRest = <<>>
    /\ entDbSeen = {}
    /\ entRemoved = {}
    /\ entFailed = FALSE
    /\ entPc = "idle"

---------------------------------------------------------------------------
(* reply (assyst-core/src/gateway_handler/reply.rs) *)

Calls == 1..MaxCalls

\* Reply { state: ReplyState::InUse(ReplyInUse { message_id, .. }), .. }
InUse(id) == [state |-> "InUse", message_id |-> id]

\* replies.get(message_id).and_then(|r| r.in_use())
in_use(entry) ==
    IF entry # None /\ entry[1].state = "InUse" THEN Some(entry[1].message_id) ELSE None

\* lines 99-106: the lookup and the choice between edit and create_message
Reply_lookup(c) ==
    /\ callPc[c] = "start"
    /\ callSeen' = [callSeen EXCEPT ![c] = in_use(replies)]
    /\ callPc' = [callPc EXCEPT ![c] = IF in_use(replies) # None THEN "edit" ELSE "create"]
    /\ UNCHANGED <<replies, created, edits>>

\* edit: message.await? on the update of the recorded message
Reply_edit(c, sent) ==
    /\ callPc[c] = "edit"
    /\ edits' = (IF sent THEN Append(edits, callSeen[c][1]) ELSE edits)
    /\ callPc' = [callPc EXCEPT ![c] = IF sent THEN "done" ELSE "failed"]
    /\ UNCHANGED <<replies, callSeen, created>>

\* create_message: message.await?.model().await? and the insert of lines 84-93;
\* the new message gets the next id
Reply_create(c, sent) ==
    /\ callPc[c] = "create"
    /\ IF sent
       THEN /\ created' = Append(created, Len(created) + 1)
            /\ replies' = Some(InUse(Len(created) + 1))
       ELSE UNCHANGED <<created, replies>>
    /\ callPc' = [callPc EXCEPT ![c] = IF sent THEN "done" ELSE "failed"]
    /\ UNCHANGED <<callSeen, edits>>

Lookup ==
    /\ kind = "reply"
    /\ \E c \in Calls : Reply_lookup(c)
    /\ UNCHANGED <<argVars, trackerVars, entVars, trimVars>>

Edit ==
    /\ kind = "reply"
    /\ \E c \in Calls, sent \in BOOLEAN : Reply_edit(c, sent)
    /\ UNCHANGED <<argVars, trackerVars, entVars, trimVars>>

Create_message ==
    /\ kind = "reply"
    /\ \E c \in Calls, sent \in BOOLEAN : Reply_create(c, sent)
    /\ UNCHANGED <<argVars, trackerVars, entVars, trimVars>>

IdleReply ==
    /\ replies = None
    /\ callPc = <<>>
    /\ callSeen = <<>>
    /\ created = <<>>
    /\ edits = <<>>

\* a String as runs of chars of one UTF-8 width: [w |-> bytes per char, n |-> chars]
Run(w, n) == [w |-> w, n |-> n]

Contents == {<<>>, <<Run(1, 5)>>, <<Run(1, 2000)>>, <<Run(1, 2001)>>, <<Run(2, 1500)>>,
             <<Run(4, 2500)>>, <<Run(1, 1999), Run(4, 3)>>, <<Run(3, 1999), Run(1, 1)>>,
             <<Run(2, 2000), Run(1, 5)>>, <<Run(1, 1), Run(2, 1), Run(3, 1998), Run(4, 4)>>}

RECURSIVE Chars(_)
Chars(str) == IF str = <<>> THEN 0 ELSE Head(str).n + Chars(Tail(str))

RECURSIVE Bytes(_)
Bytes(str) == IF str = <<>> THEN 0 ELSE Head(str).w * Head(str).n + Bytes(Tail(str))

\* the byte length of the first k chars (k at most Chars(str))
RECURSIVE byte_index(_, _)
byte_index(str, k) ==
    IF k = 0 \/ str = <<>> THEN 0
    ELSE IF Head(str).n >= k THEN Head(str).w * k
    ELSE Head(str).w * Head(str).n + byte_index(Tail(str), k - Head(str).n)

\* content.char_indices().nth(k) read as the byte at position k
nth_byte(str, k) == IF Bytes(str) > k THEN Some(k) ELSE None

\* content.char_indices().nth(k): the byte index of char k (from 0), if there is one
char_indices_nth(str, k) == IF Chars(str) > k THEN Some(byte_index(str, k)) ELSE None

\* String::truncate(new_len): panics when new_len is not on a char boundary
RECURSIVE truncate(_, _)
truncate(str, new_len) ==
    IF str = <<>> \/ new_len = 0 THEN [content |-> <<>>, panicked |-> FALSE]
    ELSE LET r == Head(str) IN
         IF r.w * r.n <= new_len
         THEN LET t == truncate(Tail(str), new_len - r.w * r.n) IN
              [content |-> <<r>> \o t.content, panicked |-> t.panicked]
         ELSE IF new_len % r.w # 0 THEN [content |-> str, panicked |-> TRUE]
         ELSE [content |-> <<Run(r.w, new_len \div r.w)>>, panicked |-> FALSE]

trim_content_fits(str) ==
    LET at == char_indices_nth(str, CharLimit) IN
    IF at # None THEN truncate(str, at[1]) ELSE [content |-> str, panicked |-> FALSE]

Trim_content_fits ==
    /\ kind = "trim"
    /\ trimPc = "ok"
    /\ trims < 2
    /\ LET out == trim_content_fits(content) IN
       /\ content' = out.content
       /\ trimPc' = (IF out.panicked THEN "panic" ELSE "ok")
    /\ trims' = trims + 1
    /\ UNCHANGED <<argVars, trackerVars, entVars, replyVars, original>>

IdleTrim ==
    /\ content = <<>>
    /\ original = <<>>
    /\ trims = 0
    /\ trimPc = "ok"

IdleTracker ==
    /\ tracking_length = 0
    /\ samples = <<>>
    /\ now = 0
    /\ called = NoCall
    /\ rate = Pending
    /\ trackerPc = "ok"

---------------------------------------------------------------------------
(* Specification *)

NoFetch == [status |-> "none", messages |-> <<>>]

InitCommon ==
    /\ pos = 0
    /\ chainRes = Pending
    /\ inner = Pending
    /\ result = Pending
    /\ items = <<>>
    /\ trace = <<>>
    /\ fetched = NoFetch
    /\ page = None
    /\ rawDecode = Pending
    /\ IdleTracker
    /\ IdleEntitlements
    /\ IdleReply
    /\ IdleTrim

\* no argument is being parsed
IdleArgs ==
    /\ argType = "none"
    /\ wrapped = FALSE
    /\ words = <<>>
    /\ options = <<>>
    /\ message = NoMessage
    /\ pc = "idle"
    /\ pos = 0
    /\ chainRes = Pending
    /\ inner = Pending
    /\ result = Pending
    /\ items = <<>>
    /\ trace = <<>>
    /\ fetched = NoFetch
    /\ page = None
    /\ rawDecode = Pending

InitRawImage ==
    /\ kind = "raw"
    /\ argType = "ImageUrl"
    /\ wrapped \in BOOLEAN
    /\ words \in SeqsUpTo(ImageWords, MaxImageWords)
    /\ options = <<>>
    /\ message \in Messages
    /\ pc = RawOrder[1]
    /\ InitCommon

InitOptionImage ==
    /\ kind = "option"
    /\ argType = "ImageUrl"
    /\ wrapped \in BOOLEAN
    /\ words = <<>>
    /\ options \in SeqsUpTo(ImageOptions, MaxOptions)
    /\ message = NoMessage
    /\ pc = OptionOrder[1]
    /\ InitCommon

InitRawPrimitive ==
    /\ kind = "raw"
    /\ argType \in PrimTypes
    /\ wrapped \in BOOLEAN
    /\ words \in SeqsUpTo(PrimWords, MaxWords)
    /\ options = <<>>
    /\ message = NoMessage
    /\ pc = "start"
    /\ InitCommon

InitRawFlags ==
    /\ kind = "raw"
    /\ argType \in FlagTypes
    /\ wrapped = FALSE
    /\ words \in SeqsUpTo(FlagWordsOf(argType), MaxWords)
    /\ options = <<>>
    /\ message = NoMessage
    /\ pc = "start"
    /\ InitCommon

InitOptionPrimitive ==
    /\ kind = "option"
    /\ argType \in PrimTypes \cup {"VecWord"}
    /\ wrapped \in BOOLEAN
    /\ words = <<>>
    /\ options \in SeqsUpTo(PrimOptions, MaxOptions)
    /\ message = NoMessage
    /\ pc = "start"
    /\ InitCommon

InitRawVec ==
    /\ kind = "raw"
    /\ argType = "VecWord"
    /\ wrapped \in BOOLEAN
    /\ words \in SeqsUpTo(PrimWords, MaxWords)
    /\ options = <<>>
    /\ message = NoMessage
    /\ pc = "start"
    /\ InitCommon

InitOptionFlags ==
    /\ kind = "option"
    /\ argType \in FlagTypes
    /\ wrapped = FALSE
    /\ words = <<>>
    /\ options \in SeqsUpTo(FlagOptionsOf(argType), MaxOptions)
    /\ message = NoMessage
    /\ pc = "start"
    /\ InitCommon

\* RateTracker::new(tracking_length)
InitTracker ==
    /\ kind = "tracker"
    /\ IdleArgs
    /\ tracking_length \in 1..MaxTrackingLength
    /\ samples = <<>>
    /\ now = 0
    /\ called = NoCall
    /\ rate = Pending
    /\ trackerPc = "ok"
    /\ IdleEntitlements
    /\ IdleReply
    /\ IdleTrim

\* the task is started with some cache and some database content
InitEntitlements ==
    /\ kind = "entitlements"
    /\ IdleArgs
    /\ IdleTracker
    /\ entCache \in SUBSET EntitlementIds
    /\ entDb \in SUBSET EntitlementIds
    /\ entSnapshot = {}
    /\ entRest = <<>>
    /\ entDbSeen = {}
    /\ entRemoved = {}
    /\ entFailed = FALSE
    /\ entPc = "start"
    /\ IdleReply
    /\ IdleTrim

\* MaxCalls calls of reply() for one invoking message, no reply recorded yet
InitReply ==
    /\ kind = "reply"
    /\ IdleArgs
    /\ IdleTracker
    /\ IdleEntitlements
    /\ IdleTrim
    /\ replies = None
    /\ callPc = [c \in Calls |-> "start"]
    /\ callSeen = [c \in Calls |-> None]
    /\ created = <<>>
    /\ edits = <<>>

InitTrim ==
    /\ kind = "trim"
    /\ IdleArgs
    /\ IdleTracker
    /\ IdleEntitlements
    /\ IdleReply
    /\ content \in Contents
    /\ original = content
    /\ trims = 0
    /\ trimPc = "ok"

Init ==
    \/ InitRawImage
    \/ InitOptionImage
    \/ InitRawPrimitive
    \/ InitRawFlags
    \/ InitOptionPrimitive
    \/ InitRawVec
    \/ InitOptionFlags
    \/ InitTracker
    \/ InitEntitlements
    \/ InitReply
    \/ InitTrim

Next ==
    \/ Raw_from_mention
    \/ Raw_from_url_argument
    \/ Raw_from_attachment
    \/ Raw_from_reply
    \/ Raw_from_emoji
    \/ Raw_from_sticker
    \/ Raw_from_channel_history
    \/ NormaliseRaw
    \/ Opt_from_attachment
    \/ Opt_from_mention
    \/ Opt_from_url_argument
    \/ Opt_from_emoji
    \/ Opt_from_channel_history
    \/ NormaliseOption
    \/ Parse_u64_raw
    \/ Parse_f64_raw
    \/ Parse_Time_raw
    \/ Parse_Word_raw
    \/ Parse_Rest_raw
    \/ Parse_flags_raw
    \/ Parse_f32_raw
    \/ Parse_u64_option
    \/ Parse_f64_option
    \/ Parse_f32_option
    \/ Parse_Time_option
    \/ Parse_Word_option
    \/ Parse_Rest_option
    \/ Parse_VecWord_raw
    \/ Parse_VecWord_option
    \/ Parse_flags_option
    \/ Tick
    \/ Remove_expired_samples
    \/ Add_sample
    \/ Get_rate
    \/ Refresh_fetch
    \/ Refresh_add
    \/ Refresh_remove
    \/ Lookup
    \/ Edit
    \/ Create_message
    \/ Trim_content_fits

Spec == Init /\ [][Next]_vars

---------------------------------------------------------------------------
(* Properties *)

IsImage == argType = "ImageUrl"
ChainReturned == pc \in {"normalize", "done"}
IsLowErr(r) == IsErr(r) /\ get_severity(r.err) = "Low"
IsHighErr(r) == IsErr(r) /\ get_severity(r.err) = "High"

ClaimedRawOrder == <<"from_mention_raw_message", "from_url_argument_raw_message",
                     "from_attachment_raw_message", "from_reply", "from_emoji_raw_message",
                     "from_sticker", "from_channel_history">>

\* C1: the text chain invokes its strategies in the order mention, URL, attachment,
\* reply, emoji, sticker, history; a strategy that succeeds is the last one invoked,
\* the chain returns its value, and the cursor is where that strategy left it.
C1_FirstMatchRaw ==
    (kind = "raw" /\ IsImage) =>
        /\ Len(trace) <= Len(ClaimedRawOrder)
        /\ \A i \in 1..Len(trace) :
             /\ trace[i].name = ClaimedRawOrder[i]
             /\ IsOk(trace[i].res) =>
                  /\ i = Len(trace)
                  /\ chainRes = trace[i].res
                  /\ pos = trace[i].end
                  /\ ChainReturned

\* the emoji strategy (fifth) succeeded after four failures and consumed the word
C1_Witness ==
    /\ kind = "raw" /\ IsImage /\ pc = "done"
    /\ Len(trace) = 5
    /\ IsOk(trace[5].res)
    /\ trace[5].end = 1 /\ pos = 1

\* C2: in both chains a High error of a strategy is the chain's result, that
\* strategy is the last one invoked, and the cursor is where it was before the
\* strategy started.
C2_HighAborts ==
    IsImage =>
        \A i \in 1..Len(trace) :
            IsHighErr(trace[i].res) =>
                /\ i = Len(trace)
                /\ chainRes = trace[i].res
                /\ pc = "done"
                /\ pos = trace[i].start

\* the mention lookup failed High after consuming the mention; history was not run
C2_Witness ==
    /\ kind = "raw" /\ IsImage /\ pc = "done"
    /\ Len(trace) = 1
    /\ trace[1].res = Err("TwilightHttp")
    /\ trace[1].end = 1 /\ pos = 0

\* C3: when Option<T>::parse_raw_message returns Ok(None) the cursor is at the
\* position it had before the call.
C3_AbsentLeavesCursor ==
    (kind = "raw" /\ wrapped /\ pc = "done" /\ result = Ok(None)) => pos = 0

HasUnknownFlag ==
    \E i \in 1..Len(words) :
        IsFlagToken(words[i]) /\ Tail(words[i]) \notin DOMAIN ValidFlagsOf(argType)

\* C4: flags_from_str fails whenever the input contains a flag-name token whose
\* name is not in the allow-list.
C4_UnknownFlagFails ==
    (argType \in FlagTypes /\ pc = "done" /\ HasUnknownFlag) => ~IsOk(rawDecode)

\* C5: for an input made of consecutive declared NoValue flags, every one of them
\* is a key of the result.
C5_ConsecutiveNoValueFlags ==
    (/\ argType = "RustFlags" /\ pc = "done"
     /\ \A i \in 1..Len(words) :
          IsFlagToken(words[i]) /\ Tail(words[i]) \in DOMAIN RustValidFlags)
    => /\ IsOk(rawDecode)
       /\ \A i \in 1..Len(words) : Tail(words[i]) \in DOMAIN rawDecode.val

IsMentionWord(w) == id_from_mention(w) # None /\ id_from_mention(w) # Some(0)

\* C6: in the option chain a String option holding a mention is resolved by the
\* mention strategy, and a String option holding a URL (not a mention) is returned
\* by the URL strategy, the third and last strategy invoked.
C6_OptionChainOrder ==
    (/\ kind = "option" /\ IsImage /\ pc \in {"normalize", "done", "panic"}
     /\ Len(options) >= 1 /\ options[1].kind = "String")
    => /\ IsMentionWord(options[1].s) =>
            /\ Len(trace) = 2
            /\ trace[2].name = "from_mention_command_option"
       /\ (~IsMentionWord(options[1].s) /\ URL_is_match(options[1].s)) =>
            /\ Len(trace) = 3
            /\ trace[3].name = "from_url_argument_command_option"
            /\ chainRes = Ok(options[1].s)

ChainOrder == IF kind = "raw" THEN RawOrder ELSE OptionOrder

\* C7: a chain never returns a Low error; when every strategy including the
\* history scan has failed Low, the chain's result is NoImageFound, which is High.
C7_Exhausted ==
    (IsImage /\ pc = "done") =>
        /\ ~IsLowErr(chainRes)
        /\ (/\ Len(trace) = Len(ChainOrder)
            /\ \A i \in 1..Len(trace) : IsLowErr(trace[i].res))
           => /\ chainRes = Err("NoImageFound")
              /\ get_severity(chainRes.err) = "High"
              /\ result = chainRes

\* every strategy of the text chain failed Low, the scan found nothing in a
\* non-empty message list
C7_Witness ==
    /\ kind = "raw" /\ IsImage /\ pc = "done"
    /\ Len(trace) = 7
    /\ trace[7].res = Err("NoImageInHistory")
    /\ fetched.status = "ok" /\ Len(fetched.messages) = 2
    /\ chainRes = Err("NoImageFound")

Usable(m) ==
    \/ IsOk(embed(m.embeds))
    \/ IsOk(sticker(m.sticker_items))
    \/ IsOk(attachment(m.attachments))

HistoryEntry == trace[Len(trace)]
HistoryRan == Len(trace) >= 1 /\ HistoryEntry.name = "from_channel_history"

\* C8: for a fetched message list the scan succeeds exactly when some message
\* yields a usable embed, PNG sticker or attachment, whatever errors the other
\* messages produce, and otherwise returns NoImageInHistory.
C8_HistoryScansAll ==
    (IsImage /\ HistoryRan /\ fetched.status = "ok") =>
        /\ (\E i \in 1..Len(fetched.messages) : Usable(fetched.messages[i]))
             <=> IsOk(HistoryEntry.res)
        /\ ~(\E i \in 1..Len(fetched.messages) : Usable(fetched.messages[i]))
             <=> HistoryEntry.res = Err("NoImageInHistory")

\* the first message holds only an unsupported sticker, the second one is usable
C8_Witness ==
    /\ IsImage /\ HistoryRan /\ fetched.status = "ok"
    /\ Len(fetched.messages) = 2
    /\ sticker(fetched.messages[1].sticker_items) = Err("UnsupportedSticker")
    /\ ~Usable(fetched.messages[1])
    /\ Usable(fetched.messages[2])
    /\ IsOk(HistoryEntry.res)

ResultUrl == IF wrapped THEN result.val[1] ELSE result.val

FirstGif(t, u) ==
    \E i \in 1..Len(t) :
        /\ IsTenorGif(t[i])
        /\ \A j \in 1..(i - 1) : ~IsTenorGif(t[j])
        /\ u = t[i]

\* C9: a returned URL never has the prefix "https://tenor.com/view"; a chain value
\* with that prefix is replaced by the first direct-media link of the fetched
\* page, and with no such link in the page the call fails with MediaDownloadFail.
C9_TenorNormalised ==
    (IsImage /\ pc = "done") =>
        /\ IsOk(result) => ~IsPrefix(<<"https://", "tenor.com/view">>, ResultUrl)
        /\ (IsOk(chainRes) /\ IsPrefix(<<"https://", "tenor.com/view">>, chainRes.val)
            /\ page # None)
           => IF \E i \in 1..Len(page[1]) : IsTenorGif(page[1][i])
              THEN IsOk(result) /\ FirstGif(page[1], ResultUrl)
              ELSE result = Err("MediaDownloadFail")

\* a tenor view link written without the trailing slash was resolved from a page
\* whose first direct link follows other text
C9_Witness ==
    /\ IsImage /\ pc = "done"
    /\ chainRes = Ok(UrlTenorViewer)
    /\ page = Some(<<Plain, Gif1, Gif2>>)
    /\ result = Finish(wrapped, Ok(Gif1))

\* C10: a strategy that fails Low leaves the cursor at the position it started
\* from, and the next strategy starts from that same position.
C10_LowRewinds ==
    IsImage =>
        \A i \in 1..Len(trace) :
            IsLowErr(trace[i].res) =>
                /\ trace[i].kept = trace[i].start
                /\ i < Len(trace) => trace[i + 1].start = trace[i].start
                /\ i = Len(trace) => pos = trace[i].start

\* the mention strategy consumed a word and failed Low; the URL strategy then
\* started from the same position and matched that word
C10_Witness ==
    /\ kind = "raw" /\ IsImage
    /\ Len(trace) >= 2
    /\ trace[1].res = Err("NoMention") /\ trace[1].end = 1
    /\ trace[2].start = 0 /\ IsOk(trace[2].res)

---------------------------------------------------------------------------
(* Option<T> *)

\* C11: when the declared type is Option<T>, on either cursor, the returned value
\* is determined by T's own outcome and its severity only: Ok(v) gives Ok(Some(v)),
\* a Low error gives Ok(None), and a High error is returned as the same error.
C11_OptionBySeverity ==
    (wrapped /\ pc = "done" /\ inner.tag \in {"Ok", "Err"}) =>
        /\ IsOk(inner) => result = Ok(Some(inner.val))
        /\ (IsErr(inner) /\ inner.err \in LowErrors) => result = Ok(None)
        /\ (IsErr(inner) /\ inner.err \in HighErrors) => result = inner

\* Option<u64> on the option cursor given a String payload: the High mismatch comes back
C11_Witness ==
    /\ wrapped
    /\ kind = "option"
    /\ pc = "done"
    /\ IsErr(inner)
    /\ inner.err \in HighErrors
    /\ result = inner

---------------------------------------------------------------------------
(* The flag decoder *)

FlagRan == argType \in FlagTypes /\ pc = "done" /\ rawDecode # Pending

\* the tokens flags_from_str iterates over
FlagArgs == IF kind = "raw" THEN words ELSE split_ascii_whitespace(options[1].s)

\* a flag name as section 4.5 defines it: "--" followed by at least one character
ClaimedFlag(arg) == Len(arg) >= 2 /\ arg[1] = "--"

\* after n tokens the loop is running with a declared flag of the given arity pending
PendingOf(n, arity) ==
    LET st == flags_after(FlagArgs, n, ValidFlagsOf(argType)) IN
    /\ st.err = None
    /\ st.current_flag # None
    /\ st.current_flag[1] \in DOMAIN ValidFlagsOf(argType)
    /\ ValidFlagsOf(argType)[st.current_flag[1]] = arity

NothingPending(n) ==
    LET st == flags_after(FlagArgs, n, ValidFlagsOf(argType)) IN
    st.err = None /\ st.current_flag = None

\* C12: every key of a successful flags_from_str result is declared in the
\* allow-list; a NoValue key maps to None and a WithValue key to a present value.
C12_KeysDeclared ==
    (FlagRan /\ IsOk(rawDecode)) =>
        \A k \in DOMAIN rawDecode.val :
            /\ k \in DOMAIN ValidFlagsOf(argType)
            /\ ValidFlagsOf(argType)[k] = "NoValue" => rawDecode.val[k] = None
            /\ ValidFlagsOf(argType)[k] = "WithValue" => rawDecode.val[k] # None

C12_Witness ==
    /\ FlagRan
    /\ IsOk(rawDecode)
    /\ DOMAIN rawDecode.val = {<<"quality">>, <<"audio">>}

\* C13: flags_from_str fails with "expects a value" when a flag name is read while
\* a declared WithValue flag is pending and when the input ends while one is
\* pending; no successful result holds a WithValue flag without a value.
C13_WithValueNeedsValue ==
    FlagRan =>
        /\ \A i \in 1..Len(FlagArgs) :
               (PendingOf(i - 1, "WithValue") /\ ClaimedFlag(FlagArgs[i]))
                   => rawDecode = Err("expects a value")
        /\ PendingOf(Len(FlagArgs), "WithValue") => rawDecode = Err("expects a value")
        /\ IsOk(rawDecode) =>
               \A k \in DOMAIN rawDecode.val :
                   (k \in DOMAIN ValidFlagsOf(argType)
                    /\ ValidFlagsOf(argType)[k] = "WithValue") => rawDecode.val[k] # None

\* "--quality" as the last token
C13_Witness ==
    /\ FlagRan
    /\ PendingOf(Len(FlagArgs), "WithValue")
    /\ rawDecode = Err("expects a value")
    /\ result = Err("FlagParseError")

\* C14: flags_from_str fails with "does not expect a value" when a non-flag token
\* is read while a declared NoValue flag is pending; the call returns the error
\* and no flag set.
C14_NoValueRejectsValue ==
    FlagRan =>
        \A i \in 1..Len(FlagArgs) :
            (PendingOf(i - 1, "NoValue") /\ ~ClaimedFlag(FlagArgs[i])) =>
                /\ rawDecode = Err("does not expect a value")
                /\ result = Err("FlagParseError")

\* "--audio 480"
C14_Witness ==
    /\ FlagRan
    /\ argType = "DownloadFlags"
    /\ FlagArgs = <<(<<"--", "audio">>), (<<"480">>)>>
    /\ rawDecode = Err("does not expect a value")

\* C15: a non-flag token read while a declared WithValue flag is pending commits
\* the flag with that token as its value and clears the pending flag; a NoValue
\* flag pending at the end of input is committed with no value; "--quality 480
\* --audio" decodes to exactly {quality: "480", audio: no value}.
C15_ValueCommitted ==
    FlagRan =>
        /\ \A i \in 1..Len(FlagArgs) :
               (PendingOf(i - 1, "WithValue") /\ ~ClaimedFlag(FlagArgs[i])) =>
                   LET before == flags_after(FlagArgs, i - 1, ValidFlagsOf(argType))
                       after == flags_after(FlagArgs, i, ValidFlagsOf(argType))
                       c == before.current_flag[1]
                   IN /\ after.err = None
                      /\ after.current_flag = None
                      /\ DOMAIN after.entries = DOMAIN before.entries \cup {c}
                      /\ after.entries[c] = Some(FlagArgs[i])
                      /\ \A k \in DOMAIN before.entries \ {c} :
                             after.entries[k] = before.entries[k]
        /\ PendingOf(Len(FlagArgs), "NoValue") =>
               LET st == flags_after(FlagArgs, Len(FlagArgs), ValidFlagsOf(argType)) IN
               /\ IsOk(rawDecode)
               /\ DOMAIN rawDecode.val = DOMAIN st.entries \cup {st.current_flag[1]}
               /\ rawDecode.val[st.current_flag[1]] = None
        /\ (argType = "DownloadFlags"
            /\ FlagArgs = <<(<<"--", "quality">>), (<<"480">>), (<<"--", "audio">>)>>) =>
               rawDecode = Ok([k \in {<<"quality">>, <<"audio">>} |->
                                 IF k = <<"quality">> THEN Some(<<"480">>) ELSE None])

C15_Witness ==
    /\ FlagRan
    /\ argType = "DownloadFlags"
    /\ FlagArgs = <<(<<"--", "quality">>), (<<"480">>), (<<"--", "audio">>)>>
    /\ IsOk(rawDecode)
    /\ rawDecode.val[<<"quality">>] = Some(<<"480">>)
    /\ result = Ok([audio |-> TRUE, quality |-> 480])

\* the tokens without the one at position i
RemoveAt(args, i) == SubSeq(args, 1, i - 1) \o SubSeq(args, i + 1, Len(args))

\* C16: a non-flag token (the bare "--" included) read while no flag is pending is
\* ignored: the call on the input without that token returns the same flag set or
\* the same failure.
C16_StrayTokenIgnored ==
    FlagRan =>
        \A i \in 1..Len(FlagArgs) :
            (NothingPending(i - 1) /\ ~ClaimedFlag(FlagArgs[i])) =>
                /\ flags_from_str(RemoveAt(FlagArgs, i), ValidFlagsOf(argType)) = rawDecode
                /\ flags_after(FlagArgs, i, ValidFlagsOf(argType))
                       = flags_after(FlagArgs, i - 1, ValidFlagsOf(argType))

\* a bare "--" in front of a flag that is then committed
C16_Witness ==
    /\ FlagRan
    /\ Len(FlagArgs) >= 2
    /\ FlagArgs[1] = <<"--">>
    /\ IsOk(rawDecode)
    /\ DOMAIN rawDecode.val # {}

---------------------------------------------------------------------------
(* Vec<Word> *)

NotSpace(x) == x # " "

RECURSIVE Flatten(_)
Flatten(segs) == IF segs = <<>> THEN <<>> ELSE Head(segs) \o Flatten(Tail(segs))

\* segs are the whitespace-separated segments of text, in order: the maximal runs
\* of text without a whitespace
IsSplitOf(segs, text) ==
    /\ Flatten(segs) = SelectSeq(text, NotSpace)
    /\ \A i \in 1..Len(segs) : segs[i] # <<>> /\ \A j \in 1..Len(segs[i]) : segs[i][j] # " "
    /\ Len(segs) = Cardinality({i \in 1..Len(text) :
                                  text[i] # " " /\ (i = 1 \/ text[i - 1] = " ")})

\* C17: Vec<Word>::parse_raw_message runs Option<Word> until it is absent: one
\* pass per word and one last pass that finds the cursor exhausted, a pass is
\* always possible until then, the returned items are the words of the input
\* in order and the cursor ends exhausted; Vec<Word>::parse_command_option takes
\* one String option and returns its whitespace-separated segments in order.
C17_VecWordCollects ==
    /\ (kind = "raw" /\ argType = "VecWord") =>
           /\ items = SubSeq(words, 1, Len(items))
           /\ \A i \in 1..Len(trace) :
                  /\ trace[i].start = i - 1
                  /\ i <= Len(words) => (trace[i].res = Ok(Some(words[i])) /\ trace[i].end = i)
                  /\ i > Len(words) => (trace[i].res = Ok(None) /\ trace[i].end = i - 1)
           /\ pc = "start" =>
                  /\ Len(trace) = Len(items)
                  /\ Len(items) <= Len(words)
                  /\ pos = Len(items)
                  /\ ENABLED Parse_VecWord_raw
           /\ pc = "done" =>
                  /\ Len(trace) = Len(words) + 1
                  /\ inner = Ok(words)
                  /\ result = (IF wrapped THEN Ok(Some(words)) ELSE Ok(words))
                  /\ pos = Len(words)
    /\ (kind = "option" /\ argType = "VecWord" /\ pc = "done"
        /\ Len(options) >= 1 /\ options[1].kind = "String") =>
           /\ pos = 1
           /\ IsOk(inner)
           /\ IsSplitOf(inner.val, options[1].s)
           /\ result = (IF wrapped THEN Ok(Some(inner.val)) ELSE inner)

\* three words collected by four passes of the loop
C17_Witness ==
    /\ kind = "raw"
    /\ argType = "VecWord"
    /\ pc = "done"
    /\ Len(words) = 3
    /\ Len(trace) = 4
    /\ inner = Ok(words)
    /\ pos = 3

---------------------------------------------------------------------------
(* The option cursor: payload kinds and required options *)

BareTypes == {"u64", "f64", "f32", "Word", "Rest", "Time"}

\* the payload kind each primitive type reads
ExpectedKind(T) ==
    CASE T = "u64" -> "Integer"
      [] T \in {"f64", "f32"} -> "Number"
      [] T \in {"Word", "Rest", "Time"} -> "String"

\* C18: for u64, f64, f32, Word, Rest and Time, parse_command_option on a present
\* option of another payload kind returns MismatchedCommandOptionType, a High
\* error, and Option<T> returns that error too; on an exhausted option cursor it
\* returns a Low error, which Option<T> turns into Ok(None).
C18_MismatchIsHigh ==
    (kind = "option" /\ argType \in BareTypes /\ pc = "done") =>
        /\ (Len(options) >= 1 /\ options[1].kind # ExpectedKind(argType)) =>
               /\ inner = Err("MismatchedCommandOptionType")
               /\ inner.err \in HighErrors
               /\ result = inner
        /\ options = <<>> =>
               /\ IsErr(inner)
               /\ inner.err \in LowErrors
               /\ result = (IF wrapped THEN Ok(None) ELSE inner)

\* Option<u64> given a String payload
C18_Witness ==
    /\ kind = "option"
    /\ argType = "u64"
    /\ wrapped
    /\ pc = "done"
    /\ Len(options) >= 1
    /\ options[1].kind = "String"
    /\ result = Err("MismatchedCommandOptionType")

Declared == as_command_option(argType, wrapped)

\* bare types are declared required, Option<T> and the flag types are not
RequiredAsDeclared ==
    /\ \A T \in BareTypes \cup {"VecWord", "ImageUrl"} :
           /\ as_command_option(T, FALSE).required
           /\ ~as_command_option(T, TRUE).required
    /\ \A T \in FlagTypes : ~as_command_option(T, FALSE).required

MissingOption == kind = "option" /\ pc = "done" /\ options = <<>>

---------------------------------------------------------------------------
(* The order of the history scan *)

\* the first usable source of one message in the order embed, sticker, attachment
FirstSource(m) ==
    IF IsOk(embed(m.embeds)) THEN embed(m.embeds)
    ELSE IF IsOk(sticker(m.sticker_items)) THEN sticker(m.sticker_items)
    ELSE attachment(m.attachments)

\* C20: a successful history scan returns the source of the first message, in
\* the order returned, that has a usable source, and within that message the
\* first usable of embed, PNG sticker and attachment.
C20_HistoryOrder ==
    (IsImage /\ HistoryRan /\ fetched.status = "ok" /\ IsOk(HistoryEntry.res)) =>
        \E i \in 1..Len(fetched.messages) :
            /\ Usable(fetched.messages[i])
            /\ \A j \in 1..(i - 1) : ~Usable(fetched.messages[j])
            /\ HistoryEntry.res = FirstSource(fetched.messages[i])

\* two usable messages, the first with an embed and an attachment: its embed wins
C20_Witness ==
    /\ IsImage /\ HistoryRan /\ fetched.status = "ok"
    /\ Len(fetched.messages) = 2
    /\ IsOk(embed(fetched.messages[1].embeds))
    /\ IsOk(attachment(fetched.messages[1].attachments))
    /\ Usable(fetched.messages[2])
    /\ FirstSource(fetched.messages[2]) # FirstSource(fetched.messages[1])
    /\ attachment(fetched.messages[1].attachments) # embed(fetched.messages[1].embeds)
    /\ HistoryEntry.res = embed(fetched.messages[1].embeds)

---------------------------------------------------------------------------
(* RateTracker *)

RECURSIVE SeqMax(_)
SeqMax(vs) ==
    IF Len(vs) = 1 THEN vs[1]
    ELSE LET m == SeqMax(Tail(vs)) IN IF vs[1] > m THEN vs[1] ELSE m

RECURSIVE SeqMin(_)
SeqMin(vs) ==
    IF Len(vs) = 1 THEN vs[1]
    ELSE LET m == SeqMin(Tail(vs)) IN IF vs[1] < m THEN vs[1] ELSE m

SampleValuesOf(ss) == [i \in 1..Len(ss) |-> ss[i].value]

\* C21: get_rate returns the largest minus the smallest sample value held after
\* expiry, whatever the order of the values, and None when no sample is held.
C21_RateIsMaxMinusMin ==
    (kind = "tracker" /\ trackerPc = "ok" /\ called.op = "get_rate") =>
        rate = Ok(IF samples = <<>> THEN None
                  ELSE Some(SeqMax(SampleValuesOf(samples)) - SeqMin(SampleValuesOf(samples))))

WithinLength(entry) == called.at - entry.at <= tracking_length

\* C22: when remove_expired_samples has returned, the tracker holds exactly the
\* samples that were within tracking_length at the time of the call, in order.
C22_ExpiredExactlyRemoved ==
    (kind = "tracker" /\ trackerPc = "ok" /\ called.op # "none") =>
        samples = SelectSeq(called.samples, WithinLength)

\* C26: no call of remove_expired_samples, add_sample or get_rate removes at an
\* index outside the sample vector.
C26_RemoveInBounds == kind = "tracker" => trackerPc # "panic"

---------------------------------------------------------------------------
(* refresh_entitlements *)

RunSucceeded == kind = "entitlements" /\ entPc = "done" /\ ~entFailed

\* C23: a run whose calls succeed removes an entitlement exactly when it is
\* stored in the database and is not in the REST response of the run; then it is
\* in neither the cache nor the database, and an entitlement of the REST response
\* is never removed.
C23_RemovedIffNotInRest ==
    RunSucceeded =>
        \A e \in EntitlementIds :
            /\ e \in entRemoved <=> (e \in entDbSeen /\ e \notin Range(entRest))
            /\ e \in entRemoved => (e \notin entCache /\ e \notin entDb)
            /\ (e \in Range(entRest) /\ e \in entDbSeen) => e \in entDb

\* C24: after a run whose calls succeed, every entitlement of the REST response
\* that was not cached before the run is in the cache and in the database.
C24_NewEntitlementKept ==
    RunSucceeded =>
        \A e \in Range(entRest) \ entSnapshot : e \in entCache /\ e \in entDb

---------------------------------------------------------------------------
(* reply *)

\* C27: whatever the interleaving of the reply() calls for one invoking message,
\* at most one reply message is created; it is the one recorded InUse in the
\* replies map and every edit is an edit of it.
C27_OneReplyCreated ==
    kind = "reply" =>
        /\ Len(created) <= 1
        /\ created # <<>> => replies = Some(InUse(created[1]))
        /\ \A i \in 1..Len(edits) : created # <<>> /\ edits[i] = created[1]

\* p is a prefix of str, both as runs
RECURSIVE IsRunPrefix(_, _)
IsRunPrefix(p, str) ==
    \/ p = <<>>
    \/ /\ str # <<>>
       /\ p[1].w = str[1].w
       /\ \/ p[1].n = str[1].n /\ IsRunPrefix(Tail(p), Tail(str))
          \/ p[1].n < str[1].n /\ Len(p) = 1

\* C29: after trim_content_fits the content has at most 2000 characters and is a
\* prefix of the original, content of at most 2000 characters is unchanged, and
\* a second call changes nothing.
C29_TrimFits ==
    (kind = "trim" /\ trims >= 1) =>
        /\ trimPc = "ok"
        /\ Chars(content) <= CharLimit
        /\ IsRunPrefix(content, original)
        /\ Chars(original) <= CharLimit => content = original
        /\ Chars(original) > CharLimit => Chars(content) = CharLimit
        /\ trim_content_fits(content) = [content |-> content, panicked |-> FALSE]

\* 1999 one-byte chars and three four-byte chars, trimmed twice: one four-byte char is kept
C29_Witness ==
    /\ kind = "trim"
    /\ trims = 2
    /\ original = <<Run(1, 1999), Run(4, 3)>>
    /\ content = <<Run(1, 1999), Run(4, 1)>>

---------------------------------------------------------------------------
(* structured attachment option, from_reply, u64 of an Integer option *)

\* C25: ImageUrl::parse_command_option on a next option with an Attachment
\* payload resolves it in from_attachment_interaction_command and never reaches
\* a panic.
C25_AttachmentResolves ==
    (kind = "option" /\ IsImage /\ Len(options) >= 1 /\ options[1].kind = "Attachment"
        /\ Len(trace) >= 1) =>
        /\ trace[1].name = "from_attachment_interaction_command"
        /\ IsOk(trace[1].res)
        /\ pc # "panic"

\* a step of from_reply decides when it is Ok or a High error
Decides(r) == IsOk(r) \/ IsHighErr(r)

\* what from_reply may return for the invoking message msg
FromReplyOutcomes(msg) ==
    IF msg.referenced_message = None THEN {Err("NoReply")}
    ELSE LET reply == msg.referenced_message[1] IN
         IF reply.attachments # None THEN {Ok(reply.attachments[1].url)}
         ELSE IF Decides(sticker(reply.sticker_items)) THEN {sticker(reply.sticker_items)}
         ELSE IF Decides(embed(reply.embeds)) THEN {embed(reply.embeds)}
         ELSE {IF Decides(emoji(reply.content, resp)) THEN emoji(reply.content, resp)
               ELSE Err("NoReply") : resp \in EmojiResps}

\* C28: from_reply returns NoReply (Low) without a referenced message or when the
\* referenced message yields nothing; otherwise the first of attachment, sticker,
\* embed, emoji that is Ok or a High error, and a High error ends the raw chain
\* with that error.
C28_ReplyOrder ==
    (kind = "raw" /\ IsImage) =>
        \A i \in 1..Len(trace) :
            trace[i].name = "from_reply" =>
                /\ trace[i].res \in FromReplyOutcomes(message)
                /\ get_severity("NoReply") = "Low"
                /\ IsHighErr(trace[i].res) =>
                       /\ i = Len(trace)
                       /\ pc = "done"
                       /\ chainRes = trace[i].res
                       /\ result = trace[i].res
                /\ (trace[i].res = Err("NoReply") /\ i = Len(trace)) =>
                       pc = "from_emoji_raw_message"

\* an APNG sticker ahead of a usable embed: UnsupportedSticker ends the chain
C28_Witness ==
    /\ kind = "raw" /\ IsImage /\ pc = "done"
    /\ message.referenced_message # None
    /\ message.referenced_message[1].attachments = None
    /\ IsOk(embed(message.referenced_message[1].embeds))
    /\ trace # <<>>
    /\ trace[Len(trace)].name = "from_reply"
    /\ result = Err("UnsupportedSticker")

\* C30: u64::parse_command_option on an Integer payload v never fails: it returns
\* v for v >= 0 and v + 2^64 for v < 0.
C30_IntegerAsUnsigned ==
    (kind = "option" /\ argType = "u64" /\ pc = "done" /\ Len(options) >= 1
        /\ options[1].kind = "Integer") =>
        /\ inner = Ok([two64 |-> IF options[1].n < 0 THEN 1 ELSE 0, plus |-> options[1].n])
        /\ result = Finish(wrapped, inner)
        /\ IsOk(result)

\* Integer(-1) read as 2^64 - 1
C30_Witness ==
    /\ kind = "option" /\ argType = "u64" /\ pc = "done"
    /\ Len(options) >= 1
    /\ options[1] = Integer(-1)
    /\ inner = Ok([two64 |-> 1, plus |-> -1])

====
